---- MODULE Spec2Model ----
(***************************************************************************)
(* Apple iBridge HID multiplexer: drivers/hid/apple-ibridge.c (the older,  *)
(* ACPI-rooted generation) and drivers/hid/hid-appleib.c (the newer,       *)
(* platform-rooted generation).                                            *)
(*                                                                         *)
(* A real HID device carries several top-level collections.  The driver    *)
(* splits its report descriptor into one slice per top-level collection,   *)
(* registers one virtual HID device per recognized slice, fans inbound     *)
(* reports out to the opened virtual devices and forwards the life-cycle   *)
(* callbacks to the drivers bound to them.                                  *)
(*                                                                         *)
(* Pointers are integers: 0 is NULL, a negative number -e is ERR_PTR(-e),  *)
(* a positive number below REAL_HDEV is the handle of a virtual device     *)
(* (its index in eps) and REAL_HDEV is the real hid_device.                *)
(* A 32-bit usage is the pair <<usage page, usage id>> of its two 16-bit   *)
(* halves, so that 0xff120001 stays inside TLC's 32-bit integers.          *)
(***************************************************************************)
EXTENDS Integers, Sequences, FiniteSets, TLC

(***************************************************************************)
(* Bounds of the model.                                                    *)
(***************************************************************************)
\* the longest descriptor, counted in top-level collections
MaxSegs == 3
\* the longest freely composed item stream the scanner is called on
MaxItems == 3
\* how many times the fixup is run on one buffer
MaxFixups == 2
\* how many times in a row the touch bar may answer a control message with a stall
MaxPipes == 6

(***************************************************************************)
(* Program constants.                                                      *)
(***************************************************************************)
\* ARRAY_SIZE(hdev_info->sub_hdevs), the same in both generations
Capacity == 2
\* the pointer values of the real hid_device and of the devm_kzalloc'ed hdev_info
REAL_HDEV == 100
HDEV_INFO == 101

GEN_ACPI == "apple-ibridge"
GEN_HID == "hid-appleib"
Generations == {GEN_ACPI, GEN_HID}

Slots == 0 .. (Capacity - 1)

\* the errors the HID core hands back when it refuses a virtual device
\* (-ENOMEM, -EINVAL) and the errors of the real device and of a consumer
\* callback (-EIO, -EBUSY)
FactoryErrors == {-12, -22}
HwErrors == {-5}
ConsumerErrors == {-5, -16}

IS_ERR(p) == p < 0

(***************************************************************************)
(* Report descriptors.  A descriptor is a sequence of bytes; offset o is   *)
(* the byte d[o + 1].                                                      *)
(***************************************************************************)
HID_ITEM_TYPE_MAIN == 0
HID_ITEM_TYPE_GLOBAL == 1
HID_ITEM_TYPE_LOCAL == 2
HID_ITEM_TAG_LONG == 15
HID_MAIN_ITEM_TAG_BEGIN_COLLECTION == 10
HID_MAIN_ITEM_TAG_END_COLLECTION == 12
HID_GLOBAL_ITEM_TAG_USAGE_PAGE == 0
HID_LOCAL_ITEM_TAG_USAGE == 0

ByteAt(d, o) == d[o + 1]

\* hid_fetch_item() of the HID core: the item at offset start of d[0, end),
\* or ok = FALSE when no whole item is left.  lo16 is hid_item_udata() & 0xffff.
hid_fetch_item(d, start, end) ==
    IF end - start <= 0
    THEN [ok |-> FALSE, next |-> start, type |-> 0, tag |-> 0, lo16 |-> 0]
    ELSE LET b == ByteAt(d, start)
             type == (b \div 4) % 4
             tag == (b \div 16) % 16
             size == b % 4
             p == start + 1
         IN  IF tag = HID_ITEM_TAG_LONG
             THEN IF end - p < 2
                  THEN [ok |-> FALSE, next |-> start, type |-> type, tag |-> tag, lo16 |-> 0]
                  ELSE LET lsize == ByteAt(d, p)
                           ltag == ByteAt(d, p + 1)
                       IN  IF end - (p + 2) < lsize
                           THEN [ok |-> FALSE, next |-> start, type |-> type,
                                 tag |-> ltag, lo16 |-> 0]
                           ELSE [ok |-> TRUE, next |-> p + 2 + lsize, type |-> type,
                                 tag |-> ltag, lo16 |-> 0]
             ELSE CASE size = 0 ->
                         [ok |-> TRUE, next |-> p, type |-> type, tag |-> tag, lo16 |-> 0]
                    [] size = 1 ->
                         IF end - p < 1
                         THEN [ok |-> FALSE, next |-> start, type |-> type, tag |-> tag,
                               lo16 |-> 0]
                         ELSE [ok |-> TRUE, next |-> p + 1, type |-> type, tag |-> tag,
                               lo16 |-> ByteAt(d, p)]
                    [] size = 2 ->
                         IF end - p < 2
                         THEN [ok |-> FALSE, next |-> start, type |-> type, tag |-> tag,
                               lo16 |-> 0]
                         ELSE [ok |-> TRUE, next |-> p + 2, type |-> type, tag |-> tag,
                               lo16 |-> ByteAt(d, p) + 256 * ByteAt(d, p + 1)]
                    [] size = 3 ->
                         IF end - p < 4
                         THEN [ok |-> FALSE, next |-> start, type |-> type, tag |-> tag,
                               lo16 |-> 0]
                         ELSE [ok |-> TRUE, next |-> p + 4, type |-> type, tag |-> tag,
                               lo16 |-> ByteAt(d, p) + 256 * ByteAt(d, p + 1)]

\* a scanner that takes the first End Collection for the end of the segment
CollectionEndsAtAnyEnd(depth) == TRUE

\* depth--; if (depth <= 0) return start;  depth is the value after the decrement
CollectionEnds(depth) == depth <= 0

\* a scanner that captures the usage inside collections as well
UsageCapturedAnywhere(depth) == TRUE

\* the "depth == 0" of the two usage branches
UsageCaptured(depth) == depth = 0

\* a usage page update that forgets the usage captured before it
SetUsagePageOnly(usage, udata) == <<udata, 0>>

\* *usage = (*usage & 0x0000ffff) | ((hid_item_udata(&item) & 0xffff) << 16)
SetUsagePage(usage, udata) == <<udata, usage[2]>>

\* *usage = (*usage & 0xffff0000) | (hid_item_udata(&item) & 0xffff)
SetUsage(usage, udata) == <<usage[1], udata>>

\* the loop of appleib_find_collection(), entered with the running depth and usage
RECURSIVE find_collection_loop(_, _, _, _, _)
find_collection_loop(d, start, end, depth, usage) ==
    LET item == hid_fetch_item(d, start, end)
    IN  IF ~item.ok
        THEN [pos |-> end, usage |-> usage]
        ELSE IF item.type = HID_ITEM_TYPE_MAIN
        THEN IF item.tag = HID_MAIN_ITEM_TAG_BEGIN_COLLECTION
             THEN find_collection_loop(d, item.next, end, depth + 1, usage)
             ELSE IF item.tag = HID_MAIN_ITEM_TAG_END_COLLECTION
             THEN IF CollectionEnds(depth - 1)
                  THEN [pos |-> item.next, usage |-> usage]
                  ELSE find_collection_loop(d, item.next, end, depth - 1, usage)
             ELSE find_collection_loop(d, item.next, end, depth, usage)
        ELSE IF /\ item.type = HID_ITEM_TYPE_GLOBAL
                /\ item.tag = HID_GLOBAL_ITEM_TAG_USAGE_PAGE
                /\ UsageCaptured(depth)
        THEN find_collection_loop(d, item.next, end, depth, SetUsagePage(usage, item.lo16))
        ELSE IF /\ item.type = HID_ITEM_TYPE_LOCAL
                /\ item.tag = HID_LOCAL_ITEM_TAG_USAGE
                /\ UsageCaptured(depth)
        THEN find_collection_loop(d, item.next, end, depth, SetUsage(usage, item.lo16))
        ELSE find_collection_loop(d, item.next, end, depth, usage)

\* a scanner whose usage is not reset: it starts from what a scan of the bytes
\* before start has left
find_collection_inherit(d, start, end) ==
    find_collection_loop(d, start, end, 0,
                         find_collection_loop(d, 0, start, 0, <<0, 0>>).usage)

\* appleib_find_collection(start, end, &usage): the offset after the top-level
\* collection that begins at start, and the usage captured for it
appleib_find_collection(d, start, end) ==
    find_collection_loop(d, start, end, 0, <<0, 0>>)

(***************************************************************************)
(* Classification tables.                                                  *)
(***************************************************************************)
USAGE_ALS == <<32, 65>>
USAGE_TB == <<65298, 1>>
USAGE_KBD == <<1, 6>>
USAGE_DIGITIZER == <<13, 5>>

\* appleib_sub_hid_ids[]: index 0 is the touch bar id, index 1 the ALS id
USB_DEVICE_ID_IBRIDGE_TB == 769
USB_DEVICE_ID_IBRIDGE_ALS == 770

\* appleib_usages[] of hid-appleib.c
appleib_usages == {USAGE_ALS, USAGE_TB}

\* appleib_usage_in_list() of hid-appleib.c
appleib_usage_in_list(usage) == usage \in appleib_usages

\* appleib_usage_map[] of apple-ibridge.c: usage -> product id of the sub-device
appleib_usage_map ==
    (USAGE_KBD :> USB_DEVICE_ID_IBRIDGE_TB) @@
    (USAGE_DIGITIZER :> USB_DEVICE_ID_IBRIDGE_TB) @@
    (USAGE_TB :> USB_DEVICE_ID_IBRIDGE_TB) @@
    (USAGE_ALS :> USB_DEVICE_ID_IBRIDGE_ALS)

\* appleib_find_dev_id_for_usage() of apple-ibridge.c; 0 stands for NULL
appleib_find_dev_id_for_usage(usage) ==
    IF usage \in DOMAIN appleib_usage_map THEN appleib_usage_map[usage] ELSE 0

\* whether generation g recognizes the usage
Recognized(g, usage) ==
    IF g = GEN_ACPI
    THEN appleib_find_dev_id_for_usage(usage) # 0
    ELSE appleib_usage_in_list(usage)

(***************************************************************************)
(* The descriptors the real device is probed with: every concatenation of  *)
(* at most MaxSegs top-level collections of these kinds.                   *)
(***************************************************************************)
\* Usage Page (Sensor), Usage (41), Collection, nested Collection, End, End
SegALS == <<5, 32, 9, 65, 161, 1, 161, 0, 192, 192>>
\* Usage Page (0xff12), Usage (1), Collection, Usage (0x10) inside, End
SegTB == <<6, 18, 255, 9, 1, 161, 1, 9, 16, 192>>
\* Usage Page (Generic Desktop), Usage (Keyboard), Collection, End
SegKBD == <<5, 1, 9, 6, 161, 1, 192>>
\* Usage Page (Consumer), Usage (1), Collection, End: in neither table
SegUNK == <<5, 12, 9, 1, 161, 1, 192>>

Kinds == {"als", "tb", "kbd", "unk"}

KindBytes(k) ==
    CASE k = "als" -> SegALS
      [] k = "tb" -> SegTB
      [] k = "kbd" -> SegKBD
      [] k = "unk" -> SegUNK

KindUsage(k) ==
    CASE k = "als" -> USAGE_ALS
      [] k = "tb" -> USAGE_TB
      [] k = "kbd" -> USAGE_KBD
      [] k = "unk" -> <<12, 1>>

RECURSIVE Flatten(_)
Flatten(ks) ==
    IF ks = <<>> THEN <<>> ELSE KindBytes(Head(ks)) \o Flatten(Tail(ks))

Layouts == UNION {[1 .. n -> Kinds] : n \in 0 .. MaxSegs}

(***************************************************************************)
(* The byte streams the scanner is called on by itself: every sequence of  *)
(* at most MaxItems of the items below, and the streams that open one      *)
(* top-level collection, hold such a sequence inside it and close it.      *)
(***************************************************************************)
\* An item is [k, v]: Collection, End Collection, Usage Page (v), Usage (v)
\* with one or four bytes of data, a long item, and "cut", a Usage Page item
\* whose last byte is missing.
ItemBegin == [k |-> "begin", v |-> 0]
ItemEnd == [k |-> "end", v |-> 0]
ItemPageVendor == [k |-> "page", v |-> 65298]
ItemPageSensor == [k |-> "page", v |-> 32]
ItemUsage1 == [k |-> "usage", v |-> 1]
ItemUsage32 == [k |-> "usage32", v |-> 65]
ItemLong == [k |-> "long", v |-> 0]
ItemCut == [k |-> "cut", v |-> 0]

Items == {ItemBegin, ItemEnd, ItemPageVendor, ItemPageSensor, ItemUsage1,
          ItemUsage32, ItemLong, ItemCut}

\* the bytes of an item: prefix (tag, type, size) and data, little endian
ItemBytes(t) ==
    CASE t.k = "begin" -> <<161, 1>>
      [] t.k = "end" -> <<192>>
      [] t.k = "page" -> IF t.v < 256 THEN <<5, t.v>> ELSE <<6, t.v % 256, t.v \div 256>>
      [] t.k = "usage" -> <<9, t.v>>
      \* Usage with 32 bits of data, page 0x000d in the upper half
      [] t.k = "usage32" -> <<11, t.v % 256, t.v \div 256, 13, 0>>
      \* a long item with one byte of data that reads like Collection
      [] t.k = "long" -> <<254, 1, 10, 161>>
      [] t.k = "cut" -> <<6, 18>>

RECURSIVE Encode(_)
Encode(ts) == IF ts = <<>> THEN <<>> ELSE ItemBytes(Head(ts)) \o Encode(Tail(ts))

\* a stream can be cut short only at its end
WellCut(ts) == \A j \in 1 .. Len(ts) - 1 : ts[j].k # "cut"

Streams == {ts \in UNION {[1 .. n -> Items] : n \in 0 .. MaxItems} : WellCut(ts)}

\* the collection depth after the first j items of ts
RECURSIVE DepthAfter(_, _)
DepthAfter(ts, j) ==
    IF j <= 0 THEN 0
    ELSE DepthAfter(ts, j - 1) + (CASE ts[j].k = "begin" -> 1
                                    [] ts[j].k = "end" -> -1
                                    [] OTHER -> 0)

\* nested collections that are all closed again, and nothing cut
Balanced(ts) ==
    /\ DepthAfter(ts, Len(ts)) = 0
    /\ \A j \in 1 .. Len(ts) : DepthAfter(ts, j) >= 0 /\ ts[j].k # "cut"

\* a top-level collection declared the way report descriptors declare it, usage
\* page and usage before the Collection item, and one with the Collection item
\* first; after its End Collection the stream goes on
CollectionStreams ==
    { pre \o mid \o <<ItemEnd>> \o post :
        pre \in { <<ItemPageVendor, ItemUsage1, ItemBegin>>,
                  <<ItemBegin, ItemPageVendor, ItemUsage1>> },
        mid \in {ts \in Streams : Balanced(ts)},
        post \in { <<>>, <<ItemPageSensor>> } }

(***************************************************************************)
(* The buffers the fixup is called on: buffers of the length of the        *)
(* descriptor it is written for, and of other lengths, that hold, fail to  *)
(* hold in one byte, or hold in its fixed form, each of the three parts of *)
(* the two signatures.                                                     *)
(***************************************************************************)
Blank(n) == [k \in 1 .. n |-> 0]

\* the ways the usage page item at offset 212 is written
PageForms == {"match", "tag", "low", "high"}
WritePage(d, form) ==
    [d EXCEPT ![213] = IF form = "tag" THEN 5 ELSE 6,
              ![214] = IF form = "low" THEN 19 ELSE 18,
              ![215] = IF form = "high" THEN 0 ELSE 255]

\* the ways a field is written: as the signature has it, as the fixup leaves it,
\* or with one of its bytes different
FieldForms == {"match", "fixed", "usage-tag", "usage", "size-tag", "size", "count-tag",
               "count"}
WriteField(d, u, s, form) ==
    [d EXCEPT ![u + 1] = IF form = "usage-tag" THEN 10 ELSE 9,
              ![u + 2] = IF form = "usage" THEN 80 ELSE 81,
              ![s + 1] = IF form = "size-tag" THEN 116 ELSE 117,
              ![s + 2] = IF form \in {"fixed", "size"} THEN 32 ELSE 64,
              ![s + 3] = IF form = "count-tag" THEN 148 ELSE 149,
              ![s + 4] = IF form \in {"fixed", "count"} THEN 2 ELSE 1]

FixupLengths == {633, 634, 635}

FixupInputs ==
    { WriteField(WriteField(WritePage(Blank(n), p), 416, 432, f1), 611, 627, f2) :
        n \in FixupLengths, p \in PageForms, f1 \in FieldForms, f2 \in FieldForms }
    \cup { Blank(20), <<>> }

(***************************************************************************)
(* State.                                                                  *)
(***************************************************************************)
VARIABLES
    gen,        \* which of the two source files is running
    layout,     \* the kinds of the top-level collections the descriptor was built from
    rdesc,      \* hdev->dev_rdesc, the bytes of the real device's descriptor
    pc,         \* where the probe / remove thread of the real device stands
    ret,        \* what appleib_hid_probe() returned last
    add_ret,    \* what appleib_add_device() / appleib_add_sub_devs() handed to the probe
    hw,         \* the real device: [started, opened]
    drvdata,    \* hid_get_drvdata(hdev): "none", "info" (the table below) or "wild"
    sub_hdevs,  \* hdev_info->sub_hdevs[]
    sub_open,   \* hdev_info->sub_open[]
    start,      \* the setup loop's start offset
    i,          \* the setup loop's slot counter
    cur,        \* the virtual device inside hid_add_device(), 0 when none
    eps,        \* every virtual device ever allocated, by handle
    trace,      \* the segments scanned and the calls made on the HID core since
                \* the last probe began
    early,      \* the last appleib_set_open() made by a handle not in the table
    evpc,       \* where the raw-event callback stands
    ev_i,       \* its loop index
    ev_report,  \* the report it is delivering: [type, data, size]
    ev_stayed,  \* per slot: the flag "set" / "clear" for the whole delivery, or "changed"
    ev_decided, \* the slots the loop has decided to deliver to
    pm,         \* the last life-cycle forwarding: the callback, what it returned, the
                \* slots whose consumer was called, what each consumer would return,
                \* and the slots that had a consumer driver bound
    sc_items,   \* the items a scanned byte stream was written from
    sc_rdesc,   \* the byte stream appleib_find_collection() is called on
    sc_start,   \* its start argument, an offset into sc_rdesc
    sc_ret,     \* what it returned: [pos, usage]
    fx_orig,    \* the descriptor buffer handed to the first appleib_report_fixup()
    fx_prev,    \* the buffer as it was before the last call
    fx_rdesc,   \* the buffer
    fx_calls,   \* how many times appleib_report_fixup() has run on it
    out,        \* the last outbound call a virtual device passed on: who made it,
                \* the operation and its arguments, what the real device answers,
                \* the calls made on the real device and the value handed back
    kbd,        \* hid-appletb-kbd.c: struct appletb_kbd and where its device stands
    kcall       \* the last callback of that driver: the mode it asked for, the
                \* structure before and after appletb_kbd_set_mode(), what the
                \* hardware answered, the values returned and the hardware calls made

vars == <<gen, layout, rdesc, pc, ret, add_ret, hw, drvdata, sub_hdevs,
          sub_open, start, i, cur, eps, trace, early, evpc, ev_i, ev_report,
          ev_stayed, ev_decided, pm, sc_items, sc_rdesc, sc_start, sc_ret,
          fx_orig, fx_prev, fx_rdesc, fx_calls, out, kbd, kcall>>

sc_vars == <<sc_items, sc_rdesc, sc_start, sc_ret>>
fx_vars == <<fx_orig, fx_prev, fx_rdesc, fx_calls>>

kb_vars == <<kbd, kcall>>

\* the state of the calls to the pure functions, of the virtual devices'
\* outbound calls and of the touch-bar keyboard driver, which the real
\* device's callbacks leave alone
pure_vars == <<sc_vars, fx_vars, out, kb_vars>>

probe_vars == <<pc, ret, add_ret, hw, drvdata, sub_hdevs, start, i, cur, trace>>
ev_vars == <<evpc, ev_i, ev_report, ev_decided>>
\* the real device, its virtual devices and their callbacks
device_vars == <<gen, layout, rdesc, probe_vars, sub_open, eps, early, ev_vars,
                 ev_stayed, pm>>

Handles == 1 .. Len(eps)
IsHandle(p) == p \in Handles
IsLive(p) == IsHandle(p) /\ eps[p].st = "registered"

\* kzalloc'ed hdev_info: an empty table
EmptyTable == [s \in Slots |-> 0]
NoneOpen == [s \in Slots |-> FALSE]

NoEarly == [h |-> 0, slot |-> -1, ret |-> 0, open |-> FALSE]
NoReport == [type |-> 0, data |-> <<>>, size |-> 0]
NoRet == [pos |-> -1, usage |-> <<0, 0>>]
NoPm == [op |-> "none", ret |-> 0, calls |-> <<>>, rets |-> [s \in Slots |-> 0],
         had |-> {}, oops |-> FALSE]

NoOut == [h |-> 0, op |-> "none", args |-> <<>>, rc |-> 0, calls |-> <<>>, ret |-> 0]

\* the raw reports the real device delivers: type, payload and length
Reports ==
    { [type |-> 0, data |-> <<1, 7>>, size |-> 2],
      [type |-> 2, data |-> <<9>>, size |-> 1] }

\* the real device before its first probe, its descriptor made of one of ls
DeviceInit(ls) ==
    /\ gen \in Generations
    /\ layout \in ls
    /\ rdesc = Flatten(layout)
    /\ pc = "unbound"
    /\ ret = 0
    /\ add_ret = 0
    /\ hw = [started |-> FALSE, opened |-> FALSE]
    /\ drvdata = "none"
    /\ sub_hdevs = EmptyTable
    /\ sub_open = NoneOpen
    /\ start = 0
    /\ i = 0
    /\ cur = 0
    /\ eps = <<>>
    /\ trace = <<>>
    /\ early = NoEarly
    /\ evpc = "idle"
    /\ ev_i = 0
    /\ ev_report = NoReport
    /\ ev_stayed = [s \in Slots |-> "clear"]
    /\ ev_decided = {}
    /\ pm = NoPm

\* no stream is being scanned
ScanIdle ==
    /\ sc_items = <<>>
    /\ sc_rdesc = <<>>
    /\ sc_start = 0
    /\ sc_ret = NoRet

\* no buffer is being fixed up
FixupIdle ==
    /\ fx_orig = <<>>
    /\ fx_prev = <<>>
    /\ fx_rdesc = <<>>
    /\ fx_calls = 0

\* devm_kzalloc'ed struct appletb_kbd of a device with or without the T1 quirk,
\* no driver bound yet
NoKbd(t1) ==
    [phase |-> "unbound", t1 |-> t1, current_mode |-> 0, saved_mode |-> 0, value |-> 0]

NoCall ==
    [fn |-> "none", called |-> FALSE, mode |-> 0, before |-> NoKbd(FALSE),
     after |-> NoKbd(FALSE), ret |-> 0, hret |-> 0, log |-> <<>>]

\* no touch-bar keyboard device is there
KbdIdle ==
    /\ kbd = NoKbd(FALSE)
    /\ kcall = NoCall

\* the state before the first probe of a device whose descriptor is made of ls
InitWith(ls) ==
    /\ DeviceInit(ls)
    /\ ScanIdle
    /\ FixupIdle
    /\ out = NoOut
    /\ KbdIdle

Init == InitWith(Layouts)

\* the descriptors used where the bytes matter less than the number of virtual
\* devices they lead to: none, one, two, and two with segments dropped
RunLayouts ==
    { <<"unk">>, <<"als">>, <<"als", "tb">>, <<"unk", "tb">>, <<"tb", "unk", "als">>,
      <<"tb", "als", "kbd">> }

InitRun == InitWith(RunLayouts)

(***************************************************************************)
(* The open / close tracker.                                               *)
(***************************************************************************)
\* the slot appleib_set_open() picks for hdev: the first one that holds hdev or
\* is NULL; Capacity when the loop runs off the table
RECURSIVE set_open_scan(_, _, _)
set_open_scan(tbl, hdev, s) ==
    IF s >= Capacity THEN Capacity
    ELSE IF tbl[s] = hdev \/ tbl[s] = 0 THEN s
    ELSE set_open_scan(tbl, hdev, s + 1)

\* a tracker that knows only the handles already in the table
RECURSIVE set_open_scan_known(_, _, _)
set_open_scan_known(tbl, hdev, s) ==
    IF s >= Capacity THEN Capacity
    ELSE IF tbl[s] = hdev THEN s
    ELSE set_open_scan_known(tbl, hdev, s + 1)

set_open_slot_known(tbl, hdev) == set_open_scan_known(tbl, hdev, 0)

\* a tracker whose test for an empty slot has lost its negation: the first slot
\* that holds hdev or any other device
set_open_slot_occupied(tbl, hdev) ==
    LET taken == {s \in Slots : tbl[s] = hdev \/ tbl[s] # 0}
    IN  IF taken = {} THEN Capacity
        ELSE CHOOSE s \in taken : \A t \in taken : s <= t

\* a tracker that takes an empty slot when there is one, before it looks for
\* the device
set_open_slot_free_first(tbl, hdev) ==
    LET free == {s \in Slots : tbl[s] = 0}
    IN  IF free # {} THEN CHOOSE s \in free : \A t \in free : s <= t
        ELSE set_open_scan_known(tbl, hdev, 0)

set_open_slot(tbl, hdev) == set_open_scan(tbl, hdev, 0)

\* appleib_set_open(hdev, open) on the table tbl with flags flags:
\* the return value, the slot written and the flags afterwards
appleib_set_open(tbl, flags, hdev, open) ==
    LET s == set_open_slot(tbl, hdev)
    IN  IF s < Capacity
        THEN [ret |-> 0, slot |-> s, flags |-> [flags EXCEPT ![s] = open]]
        ELSE [ret |-> -19, slot |-> -1, flags |-> flags]

\* what a delivery in flight sees of a write to the flags
Stayed(old, new) ==
    IF evpc = "idle" THEN ev_stayed
    ELSE [s \in Slots |-> IF old[s] # new[s] THEN "changed" ELSE ev_stayed[s]]

\* the record of a call made by a handle that is not in the table
Early(tbl, hdev, open, r) ==
    IF \E s \in Slots : tbl[s] = hdev THEN early
    ELSE [h |-> hdev, slot |-> r.slot, ret |-> r.ret, open |-> open]

(***************************************************************************)
(* The HID core's side of a virtual device.                                *)
(***************************************************************************)
NewEp(usage, devid, lo, hi, added) ==
    [st |-> IF added THEN "registered" ELSE "destroyed",
     added |-> added, usage |-> usage, devid |-> devid, lo |-> lo, hi |-> hi,
     driver |-> FALSE, copen |-> FALSE,
     destroys |-> IF added THEN 0 ELSE 1,
     pm |-> "none", recv |-> <<>>]

\* A world is what a run of destroy calls works on.
World(e, t, f, tr) == [eps |-> e, hdevs |-> t, open |-> f, trace |-> tr, oops |-> FALSE]

\* hid_destroy_device(p): the consumer driver is unbound, closing the device if it
\* had it open, and the device is unregistered.  A NULL or ERR_PTR argument faults.
hid_destroy_device(w, p) ==
    IF w.oops THEN w
    ELSE IF ~(p \in 1 .. Len(w.eps)) THEN [w EXCEPT !.oops = TRUE]
    ELSE LET e == w.eps[p]
             closed == IF e.st = "registered" /\ e.copen
                       THEN appleib_set_open(w.hdevs, w.open, p, FALSE).flags
                       ELSE w.open
         IN  [w EXCEPT !.eps[p] = [e EXCEPT !.st = "destroyed", !.destroys = @ + 1,
                                            !.driver = FALSE, !.copen = FALSE],
                       !.open = closed,
                       !.trace = IF e.st = "registered" /\ e.copen
                                 THEN @ \o <<<<"ll_close", p>>, <<"destroy", p>>>>
                                 ELSE Append(@, <<"destroy", p>>)]

\* a rollback that stops before slot 0: while (--i > 0)
RECURSIVE appleib_rollback_short(_, _)
appleib_rollback_short(w, n) ==
    IF n <= 1 THEN w
    ELSE appleib_rollback_short(hid_destroy_device(w, w.hdevs[n - 1]), n - 1)

\* the rollback loop, while (i--) hid_destroy_device(sub_hdevs[i])
RECURSIVE appleib_rollback(_, _)
appleib_rollback(w, n) ==
    IF n <= 0 THEN w
    ELSE appleib_rollback(hid_destroy_device(w, w.hdevs[n - 1]), n - 1)

\* appleib_remove_device() of apple-ibridge.c: NULL slots are skipped
RECURSIVE appleib_remove_device(_, _)
appleib_remove_device(w, s) ==
    IF s >= Capacity THEN w
    ELSE appleib_remove_device(
             IF w.hdevs[s] # 0 THEN hid_destroy_device(w, w.hdevs[s]) ELSE w, s + 1)

\* appleib_remove_sub_devs() of hid-appleib.c: every slot is destroyed
RECURSIVE appleib_remove_sub_devs(_, _)
appleib_remove_sub_devs(w, s) ==
    IF s >= Capacity THEN w
    ELSE appleib_remove_sub_devs(hid_destroy_device(w, w.hdevs[s]), s + 1)

\* a teardown that leaves the devices a consumer still has open
RECURSIVE remove_closed_only(_, _)
remove_closed_only(w, s) ==
    IF s >= Capacity THEN w
    ELSE remove_closed_only(
             IF w.hdevs[s] # 0 /\ ~w.open[s] THEN hid_destroy_device(w, w.hdevs[s]) ELSE w,
             s + 1)

RemoveClosedOnly(w) == remove_closed_only(w, 0)

\* the teardown loop of the running generation
RemoveAll(w) ==
    IF gen = GEN_ACPI THEN appleib_remove_device(w, 0) ELSE appleib_remove_sub_devs(w, 0)

(***************************************************************************)
(* Attach: appleib_hid_probe().                                            *)
(***************************************************************************)
StopHw(h) == [started |-> FALSE, opened |-> FALSE]

\* a probe that leaves hid_hw_start() for later
ProbeStartTraceLate == <<>>

\* hid_hw_start(hdev, HID_CONNECT_DRIVER), called before the setup loop
ProbeStartTrace == <<<<"hw_start", 0>>>>

\* The probe up to the setup loop: the USB configuration check of
\* apple-ibridge.c, the allocation of hdev_info, hid_parse() and
\* hid_hw_start().  how names the first call that fails, "ok" when none does.
ProbeStart(how) ==
    /\ pc \in {"unbound", "failed", "removed"}
    /\ evpc = "idle"
    /\ how \in {"ok", "config", "nomem", "parse", "start"}
    /\ how = "config" => gen = GEN_ACPI
    \* hid_parse() refuses a descriptor without items
    /\ rdesc = <<>> => how \in {"config", "parse"} \/ (how = "nomem" /\ gen = GEN_HID)
    /\ sub_hdevs' = EmptyTable
    /\ sub_open' = NoneOpen
    /\ start' = 0
    /\ i' = 0
    /\ cur' = 0
    /\ add_ret' = 0
    /\ drvdata' = "none"
    /\ early' = NoEarly
    /\ CASE how = "ok" ->
              /\ pc' = "scan"
              /\ ret' = 0
              /\ hw' = [started |-> TRUE, opened |-> FALSE]
              /\ trace' = ProbeStartTrace
         [] how = "config" ->
              /\ pc' = "failed"
              /\ ret' = -19
              /\ hw' = hw
              /\ trace' = <<>>
         [] how = "parse" ->
              /\ pc' = "failed"
              /\ ret' = -22
              /\ hw' = hw
              /\ trace' = <<>>
         [] how = "start" ->
              /\ pc' = "failed"
              /\ ret' = -5
              /\ hw' = hw
              /\ trace' = <<>>
         [] how = "nomem" ->
              \* hid-appleib.c allocates before hid_parse(); apple-ibridge.c
              \* allocates in appleib_add_device(), after hid_hw_start()
              /\ pc' = "failed"
              /\ ret' = -12
              /\ hw' = StopHw(hw)
              /\ trace' = IF gen = GEN_ACPI
                          THEN <<<<"hw_start", 0>>, <<"hw_stop", 0>>>>
                          ELSE <<>>
    \* the virtual devices of an earlier binding are gone by now, and what was
    \* observed of it is forgotten
    /\ eps' = <<>>
    /\ ev_i' = 0
    /\ ev_report' = NoReport
    /\ ev_decided' = {}
    /\ ev_stayed' = [s \in Slots |-> "clear"]
    /\ pm' = NoPm
    /\ UNCHANGED <<pure_vars, gen, layout, rdesc, evpc>>

\* the segment the setup loop is looking at
CurSeg == appleib_find_collection(rdesc, start, Len(rdesc))

\* a setup loop that ends after its first pass
LoopNextBreak(pos) == "added"

\* start = pos; if (start >= end) break;
LoopNext(pos) == IF pos >= Len(rdesc) THEN "added" ELSE "scan"

\* what the setup loop hands back when it has run to the end
AddOk == IF gen = GEN_ACPI THEN HDEV_INFO ELSE 0

\* a bounds check that lets one device too many through
TableFullLate(n) == n > Capacity

\* else if (i >= ARRAY_SIZE(hdev_info->sub_hdevs))
TableFull(n) == n >= Capacity

\* One pass of the setup loop over a segment that gets no virtual device:
\* its usage is unknown, or the table is full.
ScanSkip ==
    /\ pc = "scan"
    /\ \/ ~Recognized(gen, CurSeg.usage)
       \/ TableFull(i)
    /\ start' = CurSeg.pos
    /\ pc' = LoopNext(CurSeg.pos)
    /\ add_ret' = AddOk
    /\ trace' = Append(trace, <<"scan", start, CurSeg.pos>>)
    /\ UNCHANGED <<pure_vars, gen, layout, rdesc, ret, hw, drvdata, sub_hdevs, sub_open,
                   i, cur, eps, early, ev_vars, ev_stayed, pm>>

\* a factory call that hands over the descriptor from its beginning
FactoryArgsFromZero(from, pos) == [rdesc |-> 0, rsize |-> pos]

\* the descriptor arguments of appleib_add_sub_dev(hdev_info, usage, start,
\* pos - start): where the sub-device's descriptor begins and how long it is
FactoryArgs(from, pos) == [rdesc |-> from, rsize |-> pos - from]

\* hid_parse_report(sub_hdev, rdesc, rsize) keeps the rsize bytes at rdesc: the
\* virtual device made for usage out of the segment [from, pos)
SubDev(usage, from, pos, added) ==
    LET a == FactoryArgs(from, pos)
    IN  NewEp(usage, appleib_find_dev_id_for_usage(usage), a.rdesc, a.rdesc + a.rsize, added)

\* One pass over a recognized segment, up to the point where appleib_add_sub_dev()
\* is inside hid_add_device(): the virtual device is allocated, parsed and visible
\* to the consumer drivers, and not yet in the table.
ScanRegister ==
    /\ pc = "scan"
    /\ Recognized(gen, CurSeg.usage)
    /\ ~TableFull(i)
    /\ eps' = Append(eps, SubDev(CurSeg.usage, start, CurSeg.pos, TRUE))
    /\ cur' = Len(eps) + 1
    /\ trace' = trace \o <<<<"scan", start, CurSeg.pos>>, <<"register", Len(eps) + 1>>>>
    /\ pc' = "in_add"
    /\ UNCHANGED <<pure_vars, gen, layout, rdesc, ret, add_ret, hw, drvdata, sub_hdevs,
                   sub_open, start, i, early, ev_vars, ev_stayed, pm>>

\* hid_add_device() returned 0: the handle is recorded and the loop moves on.
AddReturn ==
    /\ pc = "in_add"
    /\ sub_hdevs' = [sub_hdevs EXCEPT ![i] = cur]
    /\ i' = i + 1
    /\ cur' = 0
    /\ start' = CurSeg.pos
    /\ pc' = LoopNext(CurSeg.pos)
    /\ add_ret' = AddOk
    /\ UNCHANGED <<pure_vars, gen, layout, rdesc, ret, hw, drvdata, sub_open, eps, trace,
                   early, ev_vars, ev_stayed, pm>>

\* return (void *)hdev_info->sub_hdevs[i] of apple-ibridge.c is reached with
\* i == -1, whatever the slot that failed: the read is outside the array.  With
\* the layout the source gives it yields the member before the array,
\* hdev_info->hdev; a build that lays the structure out otherwise may yield any
\* word, of which the error itself is the one that hides the fault.
OobRead(e) == {REAL_HDEV, e}

\* what the failed setup loop returns for the error e of the factory
FailedAddRet(e) == IF gen = GEN_ACPI THEN OobRead(e) ELSE {e}

\* One pass over a recognized segment whose virtual device the HID core refuses
\* with error e: in hid_allocate_device() ("alloc"), in hid_parse_report()
\* ("parse") or in hid_add_device() ("add").  The error is stored in the slot,
\* the devices registered so far are rolled back and the setup loop returns.
ScanFail(stage, e, r) ==
    /\ pc = "scan"
    /\ Recognized(gen, CurSeg.usage)
    /\ ~TableFull(i)
    /\ stage \in {"alloc", "parse", "add"}
    /\ e \in FactoryErrors
    /\ r \in FailedAddRet(e)
    /\ LET allocated == IF stage = "alloc" THEN eps
                        ELSE Append(eps, SubDev(CurSeg.usage, start, CurSeg.pos, FALSE))
           tbl == [sub_hdevs EXCEPT ![i] = e]
           w == appleib_rollback(World(allocated, tbl, sub_open,
                                       Append(trace, <<"scan", start, CurSeg.pos>>)), i)
       IN  /\ eps' = w.eps
           /\ sub_hdevs' = tbl
           /\ sub_open' = w.open
           /\ trace' = Append(w.trace, <<"add_failed", e>>)
           /\ pc' = IF w.oops THEN "oops" ELSE "added"
    /\ add_ret' = r
    /\ UNCHANGED <<pure_vars, gen, layout, rdesc, ret, hw, drvdata, start, i, cur, early,
                   ev_vars, ev_stayed, pm>>

\* whether the probe takes what the setup loop returned for a failure
AddFailed == IF gen = GEN_ACPI THEN IS_ERR(add_ret) ELSE add_ret # 0

\* what a handler does with driver data that is no hdev_info: it reads memory
\* that holds something else, and either finds nothing to do or faults
WildOutcomes == {"nothing", "oops"}

\* The rest of the probe: the error path of a failed setup loop, or
\* hid_set_drvdata() and hid_hw_open(), with the cleanup when the open fails
\* with openrc.
ProbeFinish(openrc, wild) ==
    /\ pc = "added"
    /\ openrc \in {0} \cup HwErrors
    /\ wild \in WildOutcomes
    /\ IF AddFailed
       THEN /\ openrc = 0 /\ wild = "nothing"
            /\ ret' = add_ret
            /\ hw' = StopHw(hw)
            /\ trace' = Append(trace, <<"hw_stop", 0>>)
            /\ drvdata' = "none"
            /\ pc' = "failed"
            /\ UNCHANGED <<eps, sub_open>>
       ELSE LET data == IF add_ret = AddOk THEN "info" ELSE "wild"
            IN  IF openrc = 0
                THEN /\ wild = "nothing"
                     /\ ret' = 0
                     /\ hw' = [started |-> TRUE, opened |-> TRUE]
                     /\ trace' = Append(trace, <<"hw_open", 0>>)
                     /\ drvdata' = data
                     /\ pc' = "bound"
                     /\ UNCHANGED <<eps, sub_open>>
                ELSE LET w == IF data = "info"
                              THEN RemoveAll(World(eps, sub_hdevs, sub_open, trace))
                              ELSE [World(eps, sub_hdevs, sub_open, trace)
                                       EXCEPT !.oops = (wild = "oops")]
                     IN  /\ data = "info" => wild = "nothing"
                         /\ eps' = w.eps
                         /\ sub_open' = w.open
                         /\ IF w.oops
                            THEN /\ pc' = "oops"
                                 /\ ret' = ret
                                 /\ hw' = hw
                                 /\ trace' = w.trace
                                 /\ drvdata' = data
                            ELSE /\ pc' = "failed"
                                 /\ ret' = openrc
                                 /\ hw' = StopHw(hw)
                                 /\ trace' = Append(w.trace, <<"hw_stop", 0>>)
                                 /\ drvdata' = "none"
    /\ UNCHANGED <<pure_vars, gen, layout, rdesc, add_ret, sub_hdevs, start, i, cur, early,
                   ev_vars, ev_stayed, pm>>

(***************************************************************************)
(* Detach: appleib_hid_remove().  hid_hw_close() returns when no raw-event *)
(* callback is running any more.                                           *)
(***************************************************************************)
appleib_hid_remove(wild) ==
    /\ pc = "bound"
    /\ evpc = "idle"
    /\ wild \in WildOutcomes
    /\ drvdata = "info" => wild = "nothing"
    /\ LET closed == Append(trace, <<"hw_close", 0>>)
           w == IF drvdata = "info"
                THEN RemoveAll(World(eps, sub_hdevs, sub_open, closed))
                ELSE [World(eps, sub_hdevs, sub_open, closed) EXCEPT !.oops = (wild = "oops")]
       IN  /\ eps' = w.eps
           /\ sub_open' = w.open
           /\ IF w.oops
              THEN /\ pc' = "oops"
                   /\ hw' = [started |-> TRUE, opened |-> FALSE]
                   /\ trace' = w.trace
                   /\ drvdata' = drvdata
              ELSE /\ pc' = "removed"
                   /\ hw' = StopHw(hw)
                   /\ trace' = Append(w.trace, <<"hw_stop", 0>>)
                   /\ drvdata' = "none"
    /\ UNCHANGED <<pure_vars, gen, layout, rdesc, ret, add_ret, sub_hdevs, start, i, cur,
                   early, ev_vars, ev_stayed, pm>>

(***************************************************************************)
(* The consumer drivers of the virtual devices.  hid_hw_open() and         *)
(* hid_hw_close() of the HID core reach appleib_ll_open() and              *)
(* appleib_ll_close() on the first open and on the last close.             *)
(***************************************************************************)
\* appleib_ll_open() / appleib_ll_close() called for the virtual device h
LlSetOpen(h, open) ==
    LET r == appleib_set_open(sub_hdevs, sub_open, h, open)
    IN  /\ sub_open' = r.flags
        /\ early' = Early(sub_hdevs, h, open, r)
        /\ ev_stayed' = Stayed(sub_open, r.flags)
        /\ eps' = [eps EXCEPT ![h].copen = IF open THEN r.ret = 0 ELSE FALSE,
                              ![h].driver = TRUE]

\* A consumer driver binds to the virtual device h, inside hid_add_device() or
\* later, and its probe may open the device at once.
ConsumerProbe(h, opens) ==
    /\ IsLive(h)
    /\ ~eps[h].driver
    /\ opens \in BOOLEAN
    /\ IF opens
       THEN LlSetOpen(h, TRUE)
       ELSE /\ eps' = [eps EXCEPT ![h].driver = TRUE]
            /\ UNCHANGED <<sub_open, early, ev_stayed>>
    /\ UNCHANGED <<pure_vars, gen, layout, rdesc, probe_vars, ev_vars, pm>>

appleib_ll_open(h) ==
    /\ IsLive(h)
    /\ eps[h].driver
    /\ ~eps[h].copen
    /\ LlSetOpen(h, TRUE)
    /\ UNCHANGED <<pure_vars, gen, layout, rdesc, probe_vars, ev_vars, pm>>

appleib_ll_close(h) ==
    /\ IsLive(h)
    /\ eps[h].driver
    /\ eps[h].copen
    /\ LlSetOpen(h, FALSE)
    /\ UNCHANGED <<pure_vars, gen, layout, rdesc, probe_vars, ev_vars, pm>>

(***************************************************************************)
(* Inbound fan-out: appleib_hid_raw_event(), one step per read of the      *)
(* flags and one per hid_input_report().                                   *)
(***************************************************************************)
\* what hid_input_report(sub, type, data, size, 0) shows the consumer of sub
Delivered(type, data, size) == [type |-> type, data |-> SubSeq(data, 1, size), size |-> size]

\* a fan-out that passes one byte too few
ForwardedShort(r) == Delivered(r.type, r.data, r.size - 1)

\* the copy appleib_hid_raw_event() passes on for the report r
Forwarded(r) == Delivered(r.type, r.data, r.size)

\* The real device calls the raw-event callback with report r.
RawEventEnter(r) ==
    /\ pc = "bound"
    /\ hw.opened
    /\ drvdata = "info"
    /\ evpc = "idle"
    /\ r \in Reports
    /\ evpc' = "read"
    /\ ev_i' = 0
    /\ ev_report' = r
    /\ ev_decided' = {}
    /\ ev_stayed' = [s \in Slots |-> IF sub_open[s] THEN "set" ELSE "clear"]
    /\ eps' = [h \in DOMAIN eps |-> [eps[h] EXCEPT !.recv = <<>>]]
    /\ UNCHANGED <<pure_vars, gen, layout, rdesc, probe_vars, sub_open, early, pm>>

\* apple-ibridge.c: if (READ_ONCE(hdev_info->sub_open[i])) for the next i
RawEventRead ==
    /\ gen = GEN_ACPI
    /\ evpc = "read"
    /\ IF ev_i >= Capacity
       THEN /\ evpc' = "idle"
            /\ UNCHANGED <<ev_i, ev_decided>>
       ELSE IF sub_open[ev_i]
       THEN /\ evpc' = "deliver"
            /\ ev_decided' = ev_decided \cup {ev_i}
            /\ UNCHANGED ev_i
       ELSE /\ ev_i' = ev_i + 1
            /\ UNCHANGED <<evpc, ev_decided>>
    /\ UNCHANGED <<pure_vars, gen, layout, rdesc, probe_vars, sub_open, eps, early, ev_report,
                   ev_stayed, pm>>

\* find_next_bit(): the first set bit at or after from, Capacity when none
RECURSIVE find_next_bit(_, _)
find_next_bit(flags, from) ==
    IF from >= Capacity THEN Capacity
    ELSE IF flags[from] THEN from
    ELSE find_next_bit(flags, from + 1)

\* hid-appleib.c: for_each_set_bit(i, hdev_info->sub_open, ...), which reads the
\* whole bitmap word each time it looks for the next set bit
RawEventFind ==
    /\ gen = GEN_HID
    /\ evpc = "read"
    /\ LET n == find_next_bit(sub_open, ev_i)
       IN  IF n >= Capacity
           THEN /\ evpc' = "idle"
                /\ UNCHANGED <<ev_i, ev_decided>>
           ELSE /\ evpc' = "deliver"
                /\ ev_i' = n
                /\ ev_decided' = ev_decided \cup {n}
    /\ UNCHANGED <<pure_vars, gen, layout, rdesc, probe_vars, sub_open, eps, early, ev_report,
                   ev_stayed, pm>>

\* a loop that looks at the slot it has just served again
AfterDeliverStuck(s) == s

\* the loop index after the delivery to slot s
AfterDeliver(s) == s + 1

\* hid_input_report(hdev_info->sub_hdevs[i], report->type, data, size, 0);
\* the HID core returns -ENODEV for a NULL device
RawEventDeliver ==
    /\ evpc = "deliver"
    /\ LET sub == sub_hdevs[ev_i]
       IN  eps' = IF IsLive(sub)
                  THEN [eps EXCEPT ![sub].recv = Append(@, Forwarded(ev_report))]
                  ELSE eps
    /\ ev_i' = AfterDeliver(ev_i)
    /\ evpc' = "read"
    /\ UNCHANGED <<pure_vars, gen, layout, rdesc, probe_vars, sub_open, early, ev_report,
                   ev_stayed, ev_decided, pm>>

\* The callback run on driver data that is no hdev_info.
RawEventWild(r, wild) ==
    /\ pc = "bound"
    /\ hw.opened
    /\ drvdata = "wild"
    /\ evpc = "idle"
    /\ r \in Reports
    /\ wild \in WildOutcomes
    /\ evpc' = IF wild = "oops" THEN "oops" ELSE "idle"
    /\ ev_report' = r
    /\ UNCHANGED <<pure_vars, gen, layout, rdesc, probe_vars, sub_open, eps, early, ev_i,
                   ev_stayed, ev_decided, pm>>

(***************************************************************************)
(* Life-cycle forwarding: appleib_hid_suspend(), appleib_hid_resume() and  *)
(* appleib_hid_reset_resume().                                             *)
(***************************************************************************)
PmOps == {"suspend", "resume", "reset_resume"}

\* A forwarding is [ret, calls, oops]: the value returned, the slots whose
\* consumer callback ran, and whether a NULL slot was dereferenced.
\* appleib_forward_int_op() of apple-ibridge.c, from slot s on.  The loop body
\* ends in an unconditional break.
appleib_forward_int_op(tbl, e, rets, s) ==
    IF s >= Capacity THEN [ret |-> 0, calls |-> <<>>, oops |-> FALSE]
    ELSE IF ~(tbl[s] \in 1 .. Len(e)) THEN [ret |-> 0, calls |-> <<>>, oops |-> TRUE]
    ELSE IF e[tbl[s]].driver
    THEN [ret |-> rets[s], calls |-> <<s>>, oops |-> FALSE]
    ELSE [ret |-> 0, calls |-> <<>>, oops |-> FALSE]

\* appleib_forward_func() of hid-appleib.c over hid_driver_suspend() and its
\* like, which call the bound driver's callback and return 0 when there is none
RECURSIVE appleib_forward_func(_, _, _, _)
appleib_forward_func(tbl, e, rets, s) ==
    IF s >= Capacity THEN [ret |-> 0, calls |-> <<>>, oops |-> FALSE]
    ELSE IF ~(tbl[s] \in 1 .. Len(e)) THEN [ret |-> 0, calls |-> <<>>, oops |-> TRUE]
    ELSE LET called == e[tbl[s]].driver
             rc == IF called THEN rets[s] ELSE 0
             here == IF called THEN <<s>> ELSE <<>>
         IN  IF rc # 0
             THEN [ret |-> rc, calls |-> here, oops |-> FALSE]
             ELSE LET rest == appleib_forward_func(tbl, e, rets, s + 1)
                  IN  [ret |-> rest.ret, calls |-> here \o rest.calls, oops |-> rest.oops]

Forward(tbl, e, rets) ==
    IF gen = GEN_ACPI
    THEN appleib_forward_int_op(tbl, e, rets, 0)
    ELSE appleib_forward_func(tbl, e, rets, 0)

InSeq(x, q) == \E k \in 1 .. Len(q) : q[k] = x

\* The real device is suspended or resumed (op); rets[s] is what the consumer
\* callback of the device in slot s returns when it is called.
appleib_hid_pm(op, rets, wild) ==
    /\ pc = "bound"
    /\ op \in PmOps
    /\ rets \in [Slots -> {0} \cup ConsumerErrors]
    /\ wild \in WildOutcomes
    /\ drvdata = "info" => wild = "nothing"
    /\ LET f == IF drvdata = "info"
                THEN Forward(sub_hdevs, eps, rets)
                ELSE [ret |-> 0, calls |-> <<>>, oops |-> (wild = "oops")]
       IN  /\ pm' = [op |-> op, ret |-> f.ret, calls |-> f.calls, rets |-> rets,
                     had |-> {s \in Slots : IsLive(sub_hdevs[s]) /\ eps[sub_hdevs[s]].driver},
                     oops |-> f.oops]
           /\ eps' = [h \in DOMAIN eps |->
                        IF \E s \in Slots : /\ sub_hdevs[s] = h
                                            /\ InSeq(s, f.calls)
                                            /\ rets[s] = 0
                        THEN [eps[h] EXCEPT !.pm = op]
                        ELSE eps[h]]
    /\ UNCHANGED <<pure_vars, gen, layout, rdesc, probe_vars, sub_open, early, ev_vars, ev_stayed>>

(***************************************************************************)
(* Outbound forwarding: the ll_driver callbacks of a virtual device that   *)
(* pass a call on to the real device, hdev_info->hdev.                     *)
(***************************************************************************)
OutOps == {"power", "raw_request", "output_report"}

\* the arguments of the calls, by operation
OutArgs(op) ==
    CASE op = "power" ->
           { [level |-> "PM_HINT_FULLON"], [level |-> "PM_HINT_NORMAL"] }
      [] op = "raw_request" ->
           { [reportnum |-> 1, buf |-> <<1, 0>>, len |-> 2, rtype |-> "feature",
              reqtype |-> "set"],
             [reportnum |-> 0, buf |-> <<0>>, len |-> 1, rtype |-> "input",
              reqtype |-> "get"] }
      [] op = "output_report" ->
           { [buf |-> <<2, 7>>, len |-> 2], [buf |-> <<>>, len |-> 0] }

\* what the real device's transport answers: success, a byte count, an error
OutResults == {0, 2} \cup HwErrors

\* one call op(args) on the device dev
HwCall(dev, op, args) == [dev |-> dev, op |-> op, args |-> args]

\* return hid_hw_power(hdev_info->hdev, level);
appleib_ll_power(args, rc) ==
    [calls |-> <<HwCall(REAL_HDEV, "power", args)>>, ret |-> rc]

\* a forwarding that tries once more when the transport fails
appleib_ll_raw_request_retry(args, rc) ==
    [calls |-> IF rc < 0
               THEN <<HwCall(REAL_HDEV, "raw_request", args),
                      HwCall(REAL_HDEV, "raw_request", args)>>
               ELSE <<HwCall(REAL_HDEV, "raw_request", args)>>,
     ret |-> rc]

\* return hid_hw_raw_request(hdev_info->hdev, reportnum, buf, len, rtype, reqtype);
appleib_ll_raw_request(args, rc) ==
    [calls |-> <<HwCall(REAL_HDEV, "raw_request", args)>>, ret |-> rc]

\* return hid_hw_output_report(hdev_info->hdev, buf, len);
appleib_ll_output_report(args, rc) ==
    [calls |-> <<HwCall(REAL_HDEV, "output_report", args)>>, ret |-> rc]

\* The HID core or a consumer driver calls op(args) on the virtual device h,
\* and the real device answers rc.
LlCall(h, op, args, rc) ==
    /\ IsLive(h)
    /\ op \in OutOps
    /\ args \in OutArgs(op)
    /\ rc \in OutResults
    /\ LET f == CASE op = "power" -> appleib_ll_power(args, rc)
                  [] op = "raw_request" -> appleib_ll_raw_request(args, rc)
                  [] op = "output_report" -> appleib_ll_output_report(args, rc)
       IN  out' = [h |-> h, op |-> op, args |-> args, rc |-> rc,
                   calls |-> f.calls, ret |-> f.ret]
    /\ UNCHANGED <<sc_vars, fx_vars, kb_vars, device_vars>>

(***************************************************************************)
(* The scanner called by itself.                                           *)
(***************************************************************************)
\* the offset of the j-th item of sc_items, counted from 1; the stream's length
\* for j = Len(sc_items) + 1
ItemOffset(j) == Len(Encode(SubSeq(sc_items, 1, j - 1)))

\* pos = appleib_find_collection(start, end, &usage) with start at the j-th item
\* and end at the end of the stream
ScannerCall(j) ==
    /\ j \in 1 .. Len(sc_items) + 1
    /\ sc_start' = ItemOffset(j)
    /\ sc_ret' = appleib_find_collection(sc_rdesc, ItemOffset(j), Len(sc_rdesc))
    /\ UNCHANGED <<sc_items, sc_rdesc, fx_vars, out, kb_vars, device_vars>>

\* a scanner that hands back the offset of the End Collection item it stopped
\* at instead of the offset after it
find_collection_at_end(d, from, end) ==
    LET r == appleib_find_collection(d, from, end)
    IN  IF r.pos < end /\ r.pos > from THEN [r EXCEPT !.pos = r.pos - 1] ELSE r

\* pos = appleib_find_collection(start, end, &usage) of the setup loop
SegmentScan(d, from, end) == appleib_find_collection(d, from, end)

\* One pass of the setup loop as far as the offsets go: the scan from the start
\* offset, then start = pos, until start >= end.
SegmentLoopStep ==
    /\ sc_ret = NoRet \/ sc_ret.pos < Len(sc_rdesc)
    /\ LET from == IF sc_ret = NoRet THEN 0 ELSE sc_ret.pos
       IN  /\ sc_start' = from
           /\ sc_ret' = SegmentScan(sc_rdesc, from, Len(sc_rdesc))
    /\ UNCHANGED <<sc_items, sc_rdesc, fx_vars, out, kb_vars, device_vars>>

(***************************************************************************)
(* The descriptor fixup, appleib_report_fixup(hdev, rdesc, &rsize), the    *)
(* same in both generations.  *rsize is the length of the buffer.          *)
(***************************************************************************)
\* the conditions of one of its two if statements: the length, the usage
\* page at 212, the Usage 0x51 item at offset u and the Report Size 64 and
\* Report Count 1 items at offset s
Signature(d, u, s) ==
    /\ Len(d) = 634
    /\ ByteAt(d, 212) = 6 /\ ByteAt(d, 213) = 18 /\ ByteAt(d, 214) = 255
    /\ ByteAt(d, u) = 9 /\ ByteAt(d, u + 1) = 81
    /\ ByteAt(d, s) = 117 /\ ByteAt(d, s + 1) = 64
    /\ ByteAt(d, s + 2) = 149 /\ ByteAt(d, s + 3) = 1

\* a patch that forgets the report count
PatchSizeOnly(d, s) == [d EXCEPT ![s + 2] = 32]

\* rdesc[s + 1] = 32; rdesc[s + 3] = 2;
Patch(d, s) == [d EXCEPT ![s + 2] = 32, ![s + 4] = 2]

\* a fixup that halves every Report Size it finds at the two places and doubles
\* the Report Count, whatever their values
HalveField(d, u, s) ==
    IF /\ Len(d) = 634
       /\ ByteAt(d, u) = 9 /\ ByteAt(d, u + 1) = 81
       /\ ByteAt(d, s) = 117 /\ ByteAt(d, s + 2) = 149
    THEN [d EXCEPT ![s + 2] = ByteAt(d, s + 1) \div 2,
                   ![s + 4] = (ByteAt(d, s + 3) * 2) % 256]
    ELSE d

appleib_report_fixup_halving(d) == HalveField(HalveField(d, 416, 432), 611, 627)

appleib_report_fixup(d) ==
    LET first == IF Signature(d, 416, 432) THEN Patch(d, 432) ELSE d
    IN  IF Signature(first, 611, 627) THEN Patch(first, 627) ELSE first

\* The HID core, or whoever holds the buffer, runs the fixup on it once more.
ReportFixup ==
    /\ fx_calls < MaxFixups
    /\ fx_prev' = fx_rdesc
    /\ fx_rdesc' = appleib_report_fixup(fx_rdesc)
    /\ fx_calls' = fx_calls + 1
    /\ UNCHANGED <<fx_orig, sc_vars, out, kb_vars, device_vars>>

(***************************************************************************)
(* The touch-bar keyboard mode driver, hid-appletb-kbd.c.                  *)
(***************************************************************************)
APPLETB_KBD_MODE_OFF == 3
APPLETB_KBD_MODE_MAX == APPLETB_KBD_MODE_OFF

\* while (++tries < 5)
MaxTries == 5

\* what a write to the mode attribute may hold; kstrtou8() takes up to 255
KbdInputs == 0 .. APPLETB_KBD_MODE_MAX + 1 \cup {255, 256}

\* What the hardware does during one appletb_kbd_set_mode(): the answer of
\* hid_hw_power(PM_HINT_FULLON), whether kmemdup() finds memory, and the answers
\* of usb_control_msg(), a stall (-EPIPE) pipes times and then the byte count or
\* an error.  What a call never gets to see is left at one value.
KbdEnvs(t1) ==
    { e \in [power : {0} \cup HwErrors, alloc : BOOLEAN, pipes : 0 .. MaxPipes,
              then : {1, -5}] :
        /\ (e.power # 0 \/ ~t1) => (e.alloc /\ e.pipes = 0 /\ e.then = 1)
        /\ ~e.alloc => (e.pipes = 0 /\ e.then = 1) }

\* ret = usb_control_msg(...), the n-th one of the call
usb_control_msg(e, n) == IF n <= e.pipes THEN -32 ELSE e.then

\* a loop that sends again after any error
RetryOnError(rc) == rc < 0

\* if (ret != -EPIPE) break;
RetryOn(rc) == rc = -32

\* do { ... } while (++tries < 5): the value left in ret and the answers got,
\* with tries messages sent before
RECURSIVE send_loop(_, _)
send_loop(e, tries) ==
    LET r == usb_control_msg(e, tries + 1)
    IN  IF RetryOn(r) /\ tries + 1 < MaxTries
        THEN LET rest == send_loop(e, tries + 1)
             IN  [ret |-> rest.ret, log |-> <<<<"usb", r>>>> \o rest.log]
        ELSE [ret |-> r, log |-> <<<<"usb", r>>>>]

\* a mode setter that records the mode whatever the transfer came to
ModeAfterAlways(k, mode, rc) == [k EXCEPT !.current_mode = mode]

\* if (ret < 0) return ret; kbd->current_mode = mode;
ModeAfter(k, mode, rc) == IF rc < 0 THEN k ELSE [k EXCEPT !.current_mode = mode]

\* appletb_kbd_set_mode(kbd, mode) on the structure k with the hardware
\* answering as e says: the structure afterwards, the value returned and the
\* calls made on the hardware
appletb_kbd_set_mode(k, mode, e) ==
    IF mode > APPLETB_KBD_MODE_MAX
    THEN [kbd |-> k, ret |-> -22, log |-> <<>>]
    ELSE IF e.power # 0
    THEN [kbd |-> k, ret |-> e.power, log |-> <<<<"power", "PM_HINT_FULLON", e.power>>>>]
    ELSE LET sent == IF k.t1
                     THEN IF ~e.alloc
                          THEN [ret |-> -12, log |-> <<>>, k |-> k]
                          ELSE LET l == send_loop(e, 0)
                               IN  [ret |-> l.ret, log |-> l.log, k |-> k]
                     ELSE [ret |-> 0, log |-> <<<<"request", mode>>>>,
                           k |-> [k EXCEPT !.value = mode]]
         IN  [kbd |-> ModeAfter(sent.k, mode, sent.ret),
              ret |-> IF sent.ret < 0 THEN sent.ret ELSE 0,
              log |-> <<<<"power", "PM_HINT_FULLON", 0>>>> \o sent.log
                      \o <<<<"power", "PM_HINT_NORMAL", 0>>>>]

\* the record of a callback fn that ran appletb_kbd_set_mode(k, mode) with result r
\* and returned hret
KbdCalled(fn, k, mode, r, hret) ==
    [fn |-> fn, called |-> TRUE, mode |-> mode, before |-> k, after |-> r.kbd,
     ret |-> r.ret, hret |-> hret, log |-> r.log]

\* appletb_kbd_probe(), from the allocation of the structure on, on a device
\* with (t1) or without the T1 quirk
appletb_kbd_probe(t1, e) ==
    /\ kbd.phase = "unbound"
    /\ t1 \in BOOLEAN
    /\ e \in KbdEnvs(t1)
    /\ LET r == appletb_kbd_set_mode(NoKbd(t1), APPLETB_KBD_MODE_OFF, e)
       IN  /\ kbd' = IF r.ret # 0 THEN NoKbd(FALSE) ELSE [r.kbd EXCEPT !.phase = "bound"]
           /\ kcall' = KbdCalled("probe", NoKbd(t1), APPLETB_KBD_MODE_OFF, r, r.ret)
    /\ UNCHANGED <<sc_vars, fx_vars, out, device_vars>>

\* mode_store(): val is the number written to the attribute, two bytes long
mode_store(val, e) ==
    /\ kbd.phase = "bound"
    /\ val \in KbdInputs
    /\ e \in KbdEnvs(kbd.t1)
    /\ IF val > 255
       THEN /\ e = CHOOSE x \in KbdEnvs(kbd.t1) : x.power = 0 /\ x.alloc /\ x.pipes = 0 /\ x.then = 1
            /\ kcall' = [NoCall EXCEPT !.fn = "store", !.mode = val, !.before = kbd,
                                       !.after = kbd, !.hret = -34]
            /\ UNCHANGED kbd
       ELSE LET r == appletb_kbd_set_mode(kbd, val, e)
            IN  /\ kbd' = r.kbd
                /\ kcall' = KbdCalled("store", kbd, val, r, IF r.ret < 0 THEN r.ret ELSE 2)
    /\ UNCHANGED <<sc_vars, fx_vars, out, device_vars>>

\* a suspend that saves the mode after it has switched the touch bar off
SavedModeLate(k) == APPLETB_KBD_MODE_OFF

\* kbd->saved_mode = kbd->current_mode;
SavedMode(k) == k.current_mode

appletb_kbd_suspend(e) ==
    /\ kbd.phase = "bound"
    /\ e \in KbdEnvs(kbd.t1)
    /\ LET k == [kbd EXCEPT !.saved_mode = SavedMode(kbd)]
           r == appletb_kbd_set_mode(k, APPLETB_KBD_MODE_OFF, e)
       IN  /\ kbd' = [r.kbd EXCEPT !.phase = "suspended"]
           /\ kcall' = KbdCalled("suspend", kbd, APPLETB_KBD_MODE_OFF, r, 0)
    /\ UNCHANGED <<sc_vars, fx_vars, out, device_vars>>

appletb_kbd_reset_resume(e) ==
    /\ kbd.phase = "suspended"
    /\ e \in KbdEnvs(kbd.t1)
    /\ LET r == appletb_kbd_set_mode(kbd, kbd.saved_mode, e)
       IN  /\ kbd' = [r.kbd EXCEPT !.phase = "bound"]
           /\ kcall' = KbdCalled("reset_resume", kbd, kbd.saved_mode, r, 0)
    /\ UNCHANGED <<sc_vars, fx_vars, out, device_vars>>

\* appletb_kbd_remove(); the structure goes with the device's managed memory
appletb_kbd_remove(e) ==
    /\ kbd.phase = "bound"
    /\ e \in KbdEnvs(kbd.t1)
    /\ LET r == appletb_kbd_set_mode(kbd, APPLETB_KBD_MODE_OFF, e)
       IN  /\ kbd' = NoKbd(FALSE)
           /\ kcall' = KbdCalled("remove", kbd, APPLETB_KBD_MODE_OFF, r, 0)
    /\ UNCHANGED <<sc_vars, fx_vars, out, device_vars>>

(***************************************************************************)
(* The specification.                                                      *)
(***************************************************************************)
\* the real device's probe and remove, and the consumer drivers
Attach ==
    \/ \E how \in {"ok", "config", "nomem", "parse", "start"} : ProbeStart(how)
    \/ ScanSkip
    \/ ScanRegister
    \/ AddReturn
    \/ \E stage \in {"alloc", "parse", "add"}, e \in FactoryErrors :
           \E r \in OobRead(e) : ScanFail(stage, e, r)
    \/ \E openrc \in {0} \cup HwErrors, wild \in WildOutcomes : ProbeFinish(openrc, wild)
    \/ \E wild \in WildOutcomes : appleib_hid_remove(wild)
    \/ \E h \in Handles, opens \in BOOLEAN : ConsumerProbe(h, opens)
    \/ \E h \in Handles : appleib_ll_open(h)
    \/ \E h \in Handles : appleib_ll_close(h)

\* the raw-event callback
Fanout ==
    \/ \E r \in Reports : RawEventEnter(r)
    \/ RawEventRead
    \/ RawEventFind
    \/ RawEventDeliver
    \/ \E r \in Reports, wild \in WildOutcomes : RawEventWild(r, wild)

\* the life-cycle callbacks
Lifecycle ==
    \E op \in PmOps, rets \in [Slots -> {0} \cup ConsumerErrors], wild \in WildOutcomes :
        appleib_hid_pm(op, rets, wild)

\* attach, detach and the consumers' open and close
Next == Attach
Spec == Init /\ [][Next]_vars

\* the same with raw reports arriving
NextFanout == Attach \/ Fanout
SpecFanout == InitRun /\ [][NextFanout]_vars

\* the same with the real device suspended and resumed
NextPm == Attach \/ Lifecycle
SpecPm == InitRun /\ [][NextPm]_vars

\* the virtual devices' outbound calls
Outbound ==
    \E h \in Handles, op \in OutOps, rc \in OutResults :
        \E args \in OutArgs(op) : LlCall(h, op, args, rc)

\* attach, detach, open and close with outbound calls passing through
NextOut == Attach \/ Outbound
SpecOut == InitRun /\ [][NextOut]_vars

\* the scanner on the item streams, with no device attached
InitScan ==
    /\ DeviceInit({<<>>})
    /\ gen = GEN_HID
    /\ sc_items \in Streams \cup CollectionStreams
    /\ sc_rdesc = Encode(sc_items)
    /\ sc_start = 0
    /\ sc_ret = NoRet
    /\ FixupIdle
    /\ out = NoOut
    /\ KbdIdle

NextScan == \E j \in 1 .. Len(sc_items) + 1 : ScannerCall(j)
SpecScan == InitScan /\ [][NextScan]_vars

\* the setup loop's scans of the item streams
NextSegment == SegmentLoopStep
SpecSegment == InitScan /\ [][NextSegment]_vars

\* the touch-bar keyboard driver on its own device
InitKbd ==
    /\ DeviceInit({<<>>})
    /\ gen = GEN_HID
    /\ ScanIdle
    /\ FixupIdle
    /\ out = NoOut
    /\ KbdIdle

NextKbd ==
    \/ \E t1 \in BOOLEAN : \E e \in KbdEnvs(t1) : appletb_kbd_probe(t1, e)
    \/ \E val \in KbdInputs, e \in KbdEnvs(kbd.t1) : mode_store(val, e)
    \/ \E e \in KbdEnvs(kbd.t1) : appletb_kbd_suspend(e)
    \/ \E e \in KbdEnvs(kbd.t1) : appletb_kbd_reset_resume(e)
    \/ \E e \in KbdEnvs(kbd.t1) : appletb_kbd_remove(e)

SpecKbd == InitKbd /\ [][NextKbd]_vars

\* the fixup on the buffers, with no device attached
InitFixup ==
    /\ DeviceInit({<<>>})
    /\ gen = GEN_HID
    /\ ScanIdle
    /\ fx_orig \in FixupInputs
    /\ fx_prev = fx_orig
    /\ fx_rdesc = fx_orig
    /\ fx_calls = 0
    /\ out = NoOut
    /\ KbdIdle

NextFixup == ReportFixup
SpecFixup == InitFixup /\ [][NextFixup]_vars

(***************************************************************************)
(* Properties.                                                             *)
(***************************************************************************)
InTrace(kind) == \E k \in 1 .. Len(trace) : trace[k][1] = kind
TraceIdx(kind) == {k \in 1 .. Len(trace) : trace[k][1] = kind}

\* a raw-event callback has run on the table and has returned
DeliveryDone ==
    /\ pc = "bound"
    /\ drvdata = "info"
    /\ evpc = "idle"
    /\ ev_report # NoReport

\* what the consumer of the device in slot s has seen of the current report
Seen(s) == IF IsHandle(sub_hdevs[s]) THEN eps[sub_hdevs[s]].recv ELSE <<>>

\* C1: inbound fan-out.  When a raw report has been delivered while no open flag
\* changed, every virtual device whose flag is set has received exactly one copy
\* with the report's type, bytes and length, every virtual device whose flag is
\* clear has received nothing, and so has every device outside the table.
C1_FanoutExact ==
    (DeliveryDone /\ \A s \in Slots : ev_stayed[s] # "changed") =>
        /\ \A s \in Slots :
              /\ ev_stayed[s] = "set" => IsLive(sub_hdevs[s]) /\ Seen(s) = <<ev_report>>
              /\ ev_stayed[s] = "clear" => Seen(s) = <<>>
        /\ \A h \in Handles :
              (\A s \in Slots : sub_hdevs[s] # h) => eps[h].recv = <<>>

\* a two-byte report has reached the open device of slot 1 and not the closed
\* device of slot 0
C1_Witness ==
    /\ DeliveryDone
    /\ ev_report.size = 2
    /\ ev_stayed = (0 :> "clear") @@ (1 :> "set")
    /\ IsLive(sub_hdevs[0])
    /\ Seen(0) = <<>>
    /\ Seen(1) = <<ev_report>>

\* C8: fan-out concurrent with open and close.  Whatever opens and closes are
\* interleaved with the reads of the flags, when the callback returns every
\* slot whose flag stayed set has received the report once, every slot whose
\* flag stayed clear has received nothing, a slot whose flag changed has
\* received it at most once, and every delivery the loop decided on has been
\* made; no slot ever holds more than one copy.
C8_FanoutInterleaved ==
    /\ (pc = "bound" /\ drvdata = "info") => \A s \in Slots : Len(Seen(s)) <= 1
    /\ DeliveryDone =>
          \A s \in Slots :
             /\ ev_stayed[s] = "set" => Len(Seen(s)) = 1
             /\ ev_stayed[s] = "clear" => Len(Seen(s)) = 0
             /\ s \in ev_decided <=> Len(Seen(s)) = 1

\* a delivery during which the flag of slot 0 changed and was not served, while
\* slot 1, open throughout, was
C8_Witness ==
    /\ DeliveryDone
    /\ ev_stayed = (0 :> "changed") @@ (1 :> "set")
    /\ Len(Seen(0)) = 0
    /\ Len(Seen(1)) = 1

\* the setup loop met a refusal of the HID core during this probe
FactoryFailed == InTrace("add_failed")

\* the error the HID core refused with
FactoryError == trace[CHOOSE k \in TraceIdx("add_failed") : TRUE][2]

\* the virtual devices that got registered during this probe
Registered == {h \in Handles : eps[h].added}

\* C2: rollback on registration failure.  Once the HID core has refused the k-th
\* virtual device, the k-1 devices registered before it (k-1 is the slot counter
\* i) have each been destroyed exactly once and none of them is registered any
\* more, from the return of the setup loop on.
C2_Rollback ==
    FactoryFailed =>
        /\ Cardinality(Registered) = i
        /\ \A h \in Registered : eps[h].st = "destroyed" /\ eps[h].destroys = 1
        /\ \A s \in Slots : s < i => sub_hdevs[s] \in Registered

\* the second device was refused and the first one, registered and opened by
\* its consumer, has been destroyed once
C2_Witness ==
    /\ FactoryFailed
    /\ i = 1
    /\ sub_hdevs[0] = 1
    /\ InTrace("ll_close")
    /\ eps[1].added /\ eps[1].st = "destroyed" /\ eps[1].destroys = 1
    /\ IS_ERR(sub_hdevs[1])

\* C3: attach fails as a whole on registration failure.  When the probe returns
\* after a failed setup loop, it has returned the error of the HID core, the real
\* device is stopped and no driver data is installed.
C3_AttachFailsWhole ==
    (FactoryFailed /\ pc \in {"bound", "failed"}) =>
        /\ pc = "failed"
        /\ ret = FactoryError
        /\ ~hw.started
        /\ drvdata = "none"

\* the order of the slots in s, ascending
RECURSIVE Ascending(_, _)
Ascending(set, s) ==
    IF s >= Capacity THEN <<>>
    ELSE (IF s \in set THEN <<s>> ELSE <<>>) \o Ascending(set, s + 1)

\* a life-cycle callback has been forwarded while every slot held a device
PmDoneFull ==
    /\ pc = "bound"
    /\ drvdata = "info"
    /\ pm.op # "none"
    /\ \A s \in Slots : IsLive(sub_hdevs[s])

\* C4: life-cycle forwarding reaches every virtual device.  When no consumer
\* callback fails, the callback of the consumer bound to every virtual device
\* has run, once each, in slot order, and the forwarding has returned 0.
C4_ForwardReachesAll ==
    (PmDoneFull /\ \A s \in Slots : pm.rets[s] = 0) =>
        /\ pm.ret = 0
        /\ ~pm.oops
        /\ pm.calls = Ascending(pm.had, 0)
        /\ \A s \in pm.had : eps[sub_hdevs[s]].pm = pm.op

\* C5: fail-fast life-cycle forwarding.  With two virtual devices whose consumers
\* are both bound, when the first callback returns 0 and the second an error,
\* both have been called in that order, the first one's effect stands and the
\* forwarding has returned the second one's error.
C5_ForwardFailFast ==
    (PmDoneFull /\ pm.had = Slots /\ pm.rets[0] = 0 /\ pm.rets[1] # 0) =>
        /\ pm.calls = <<0, 1>>
        /\ pm.ret = pm.rets[1]
        /\ eps[sub_hdevs[0]].pm = pm.op

\* C6 as stated: the real device is started and opened only after the last
\* virtual device has been registered.
C6_StartAndOpenAfterRegister ==
    \A r \in TraceIdx("register") :
        \A k \in TraceIdx("hw_start") \cup TraceIdx("hw_open") : r < k

\* C6 amended: the real device is started before the first virtual device is
\* registered and is opened only after the last one has been registered.
C6_OpenAfterRegister ==
    /\ \A r \in TraceIdx("register") :
          /\ \E k \in TraceIdx("hw_start") : k < r
          /\ \A k \in TraceIdx("hw_open") : r < k
    /\ \A k \in TraceIdx("hw_open") : \E j \in TraceIdx("hw_start") : j < k

\* a probe that registered two virtual devices and then opened the real one
C6_Witness ==
    /\ pc = "bound"
    /\ Cardinality(TraceIdx("register")) = 2
    /\ trace[Len(trace)][1] = "hw_open"

\* C7: open during registration.  An open made by a handle that is not in the table
\* returns 0 and is recorded against the first unoccupied slot; while the handle
\* is being registered that is the slot the setup loop is about to fill, and once
\* registration has returned it is the slot that holds the handle, so that the
\* flag the consumer set is the flag of its own device.
C7_OpenWhileRegistering ==
    (early.h # 0 /\ early.open) =>
        /\ early.ret = 0
        /\ early.slot \in Slots
        /\ (pc = "in_add" /\ cur = early.h) =>
              /\ early.slot = i
              /\ sub_hdevs[early.slot] = 0
              /\ \A s \in Slots : s < early.slot => sub_hdevs[s] # 0
        /\ (pc # "in_add" \/ cur # early.h) => sub_hdevs[early.slot] = early.h
        /\ \A s \in Slots : sub_hdevs[s] = early.h => s = early.slot
        /\ (IsLive(early.h) /\ eps[early.h].copen) => sub_open[early.slot]

\* the second device was opened by its consumer while it was being registered
\* and has been recorded in slot 1, whose flag is set
C7_Witness ==
    /\ early.h # 0
    /\ early.open
    /\ early.slot = 1
    /\ sub_hdevs[1] = early.h
    /\ sub_open[1]
    /\ pc = "bound"

\* C9: teardown.  When the remove callback stops the real device, every virtual
\* device registered at attach has been destroyed before, whether a consumer had
\* it open or not, and once detach has completed none is registered.
C9_Teardown ==
    /\ \A c \in TraceIdx("hw_close") :
          \A k \in TraceIdx("hw_stop") :
             c < k => \A r \in TraceIdx("register") :
                          \E d \in TraceIdx("destroy") : d < k /\ trace[d][2] = trace[r][2]
    /\ pc = "removed" =>
          /\ \A h \in Handles : eps[h].st = "destroyed" /\ eps[h].destroys = 1
          /\ \A s \in Slots : ~sub_open[s]
          /\ ~hw.started

\* a detach that destroyed two devices, one of them open, and then stopped the
\* real device
C9_Witness ==
    /\ pc = "removed"
    /\ Cardinality(TraceIdx("register")) = 2
    /\ \E c \in TraceIdx("hw_close") : \E k \in TraceIdx("ll_close") : c < k
    /\ trace[Len(trace)][1] = "hw_stop"

\* the byte range of the k-th top-level collection of the descriptor
RECURSIVE SegStart(_)
SegStart(k) == IF k <= 1 THEN 0 ELSE SegStart(k - 1) + Len(KindBytes(layout[k - 1]))
SegEnd(k) == SegStart(k) + Len(KindBytes(layout[k]))

SegRecognized(k) == Recognized(gen, KindUsage(layout[k]))

\* how many recognized collections the descriptor holds up to the k-th
RecognizedUpTo(k) == Cardinality({j \in 1 .. k : SegRecognized(j)})

\* the setup loop has run to its end without a refusal of the HID core
SetupDone == pc \in {"added", "bound"} /\ ~FactoryFailed

\* C10: an unrecognized usage is not fatal.  For a descriptor with an
\* unrecognized top-level collection no virtual device is ever made of that
\* collection, and when the setup loop has run to its end it reports success and a
\* live virtual device exists for every recognized collection within capacity,
\* before and after the unrecognized one.
C10_UnknownUsageSkipped ==
    (\E u \in 1 .. Len(layout) : ~SegRecognized(u)) =>
        /\ \A h \in Handles :
              \E k \in 1 .. Len(layout) :
                 /\ SegRecognized(k)
                 /\ eps[h].lo = SegStart(k) /\ eps[h].hi = SegEnd(k)
                 /\ eps[h].usage = KindUsage(layout[k])
        /\ SetupDone =>
              /\ add_ret = AddOk
              /\ \A k \in 1 .. Len(layout) :
                    (SegRecognized(k) /\ RecognizedUpTo(k) <= Capacity) =>
                        \E s \in Slots :
                           /\ IsLive(sub_hdevs[s])
                           /\ eps[sub_hdevs[s]].lo = SegStart(k)
                           /\ eps[sub_hdevs[s]].hi = SegEnd(k)

\* a device attached with an unrecognized collection between two recognized
\* ones, each of which has its virtual device
C10_Witness ==
    /\ pc = "bound"
    /\ ret = 0
    /\ Len(layout) = 3
    /\ SegRecognized(1) /\ ~SegRecognized(2) /\ SegRecognized(3)
    /\ IsLive(sub_hdevs[0]) /\ eps[sub_hdevs[0]].hi = SegEnd(1)
    /\ IsLive(sub_hdevs[1]) /\ eps[sub_hdevs[1]].lo = SegStart(3)

\* the n-th recognized top-level collection of the descriptor, in scan order
NthRecognized(n) ==
    CHOOSE k \in 1 .. Len(layout) : SegRecognized(k) /\ RecognizedUpTo(k) = n

\* the descriptor holds more recognized collections than the table has slots
Overflowing == RecognizedUpTo(Len(layout)) > Capacity

\* C11: capacity overflow.  For a descriptor with more recognized top-level
\* collections than the table has slots, the table never grows or is written
\* outside slots 0 .. Capacity-1, no more than Capacity virtual devices are ever
\* made, and when the setup loop has run to its end it reports success, slot s
\* holds the live device made of the (s+1)-th recognized collection, and the
\* collections after the first Capacity recognized ones have no device.
C11_CapacityOverflow ==
    Overflowing =>
        /\ DOMAIN sub_hdevs = Slots
        /\ i <= Capacity
        /\ Len(eps) <= Capacity
        /\ SetupDone =>
              /\ add_ret = AddOk
              /\ i = Capacity
              /\ Len(eps) = Capacity
              /\ \A s \in Slots :
                    /\ sub_hdevs[s] = s + 1
                    /\ IsLive(sub_hdevs[s])
                    /\ eps[sub_hdevs[s]].lo = SegStart(NthRecognized(s + 1))
                    /\ eps[sub_hdevs[s]].hi = SegEnd(NthRecognized(s + 1))
                    /\ eps[sub_hdevs[s]].usage = KindUsage(layout[NthRecognized(s + 1)])
        /\ (pc = "bound" /\ ~FactoryFailed) => ret = 0 /\ drvdata = "info"

\* a device with three recognized collections is attached with the first two
\* as virtual devices and the third dropped
C11_Witness ==
    /\ pc = "bound"
    /\ ret = 0
    /\ Len(layout) = 3
    /\ \A k \in 1 .. 3 : SegRecognized(k)
    /\ start = Len(rdesc)
    /\ Len(eps) = Capacity
    /\ eps[sub_hdevs[1]].hi = SegEnd(2)

\* the identity a virtual device was made for: the usage in hid-appleib.c, the
\* mapped device id in apple-ibridge.c
Identity(h) == IF gen = GEN_ACPI THEN eps[h].devid ELSE eps[h].usage

\* C12: identity uniqueness.  After a successful attach no two registered
\* virtual devices have the same identity.
C12_IdentityUnique ==
    (pc = "bound" /\ ret = 0 /\ drvdata = "info") =>
        \A g, h \in Handles :
            (IsLive(g) /\ IsLive(h) /\ Identity(g) = Identity(h)) => g = h

\* the segments [lo, hi) the setup loop has scanned during this probe, in order
Scans == SelectSeq(trace, LAMBDA t : t[1] = "scan")

\* the bytes of the descriptor from offset lo up to offset hi
Slice(lo, hi) == SubSeq(rdesc, lo + 1, hi)

RECURSIVE ConcatSlices(_)
ConcatSlices(q) ==
    IF q = <<>> THEN <<>> ELSE Slice(Head(q)[2], Head(q)[3]) \o ConcatSlices(Tail(q))

\* the descriptor is made of at least one and at most Capacity top-level
\* collections, all of recognized usages
AllRecognizedFit ==
    /\ Len(layout) \in 1 .. Capacity
    /\ \A k \in 1 .. Len(layout) : SegRecognized(k)

\* C13: descriptor partition.  For a descriptor of N recognized top-level
\* collections, N within capacity, the segments scanned by the setup loop begin at
\* offset 0, each begins where the one before ended, the k-th holds the bytes of
\* the k-th top-level collection and nothing else, and when the loop has run to
\* its end there are N of them, the last ends at the end of the descriptor and
\* their concatenation is the descriptor.
C13_Partition ==
    AllRecognizedFit =>
        /\ Len(Scans) <= Len(layout)
        /\ \A k \in 1 .. Len(Scans) :
              /\ Scans[k][2] = (IF k = 1 THEN 0 ELSE Scans[k - 1][3])
              /\ Scans[k][2] < Scans[k][3]
              /\ Scans[k][3] <= Len(rdesc)
              /\ Slice(Scans[k][2], Scans[k][3]) = KindBytes(layout[k])
        /\ SetupDone =>
              /\ Len(Scans) = Len(layout)
              /\ Scans[Len(Scans)][3] = Len(rdesc)
              /\ ConcatSlices(Scans) = rdesc

\* the setup loop has split a descriptor of two collections, the first with a
\* nested collection, into its two segments
C13_Witness ==
    /\ SetupDone
    /\ layout = <<"als", "tb">>
    /\ Len(Scans) = 2
    /\ Scans[1][3] = Len(SegALS)
    /\ Scans[2][3] = Len(rdesc)

\* the descriptor the virtual device h was parsed from
SubRdesc(h) == Slice(eps[h].lo, eps[h].hi)

\* C14: slice exactness.  Every virtual device is made with the bytes of one
\* scanned segment, from its start offset up to its end offset and no others:
\* the segment is a recognized top-level collection of the descriptor and the
\* usage the device was made for is the one captured in it.  The device in slot s
\* is the one made of the (s+1)-th recognized segment in scan order.
C14_SliceExact ==
    /\ \A h \in Handles :
          /\ \E k \in 1 .. Len(Scans) :
                Scans[k][2] = eps[h].lo /\ Scans[k][3] = eps[h].hi
          /\ appleib_find_collection(rdesc, eps[h].lo, Len(rdesc)) =
                [pos |-> eps[h].hi, usage |-> eps[h].usage]
          /\ \E k \in 1 .. Len(layout) :
                /\ SegRecognized(k)
                /\ eps[h].lo = SegStart(k) /\ eps[h].hi = SegEnd(k)
                /\ SubRdesc(h) = KindBytes(layout[k])
                /\ eps[h].usage = KindUsage(layout[k])
    /\ \A s \in Slots :
          s < i =>
             /\ IsHandle(sub_hdevs[s])
             /\ eps[sub_hdevs[s]].lo = SegStart(NthRecognized(s + 1))
             /\ eps[sub_hdevs[s]].hi = SegEnd(NthRecognized(s + 1))

\* behind an unrecognized first collection, slot 0 holds the device made of the
\* second collection and slot 1 the device made of the third
C14_Witness ==
    /\ pc = "bound"
    /\ Len(layout) = 3
    /\ ~SegRecognized(1)
    /\ IsLive(sub_hdevs[0]) /\ SubRdesc(sub_hdevs[0]) = KindBytes(layout[2])
    /\ eps[sub_hdevs[0]].lo > 0
    /\ IsLive(sub_hdevs[1]) /\ SubRdesc(sub_hdevs[1]) = KindBytes(layout[3])

\* a call of the scanner has returned
Scanned == sc_ret # NoRet

\* the item the call started at, and the items from there on
CallItem == CHOOSE j \in 1 .. Len(sc_items) + 1 : ItemOffset(j) = sc_start
CallItems == SubSeq(sc_items, CallItem, Len(sc_items))

\* the End Collection items of ts at which the depth is 0 or less
ClosingEnds(ts) == {j \in 1 .. Len(ts) : ts[j].k = "end" /\ DepthAfter(ts, j) <= 0}

\* the first of them, 0 when there is none
EndIdx(ts) ==
    IF ClosingEnds(ts) = {} THEN 0
    ELSE CHOOSE j \in ClosingEnds(ts) : \A m \in ClosingEnds(ts) : j <= m

\* the whole items of ts the scan looks at
Looked(ts) ==
    {j \in 1 .. Len(ts) : ts[j].k # "cut" /\ (EndIdx(ts) = 0 \/ j <= EndIdx(ts))}

\* the items of the given kinds that the scan meets outside every collection
TopLevel(ts, kinds) ==
    {j \in Looked(ts) : ts[j].k \in kinds /\ DepthAfter(ts, j - 1) = 0}

\* the value of the last of them, 0 when there is none
LastValue(ts, kinds) ==
    IF TopLevel(ts, kinds) = {} THEN 0
    ELSE ts[CHOOSE j \in TopLevel(ts, kinds) : \A m \in TopLevel(ts, kinds) : m <= j].v

\* the stream of one top-level collection whose first item is its Collection item
BeginFirst == sc_items \in CollectionStreams /\ sc_items[1] = ItemBegin
\* and the one that declares usage page and usage before the Collection item
UsageFirst == sc_items \in CollectionStreams /\ sc_items[1] = ItemPageVendor

\* the offset just behind the End Collection that closes the collection of such a
\* stream: the stream's last item, or the one before a trailing item
AfterMatchingEnd ==
    IF sc_items[Len(sc_items)] = ItemEnd THEN Len(sc_rdesc)
    ELSE ItemOffset(Len(sc_items))

\* C15 as stated: a scan from offset 0 of Collection, Usage Page 0xff12, Usage 1,
\* any balanced nested collections, End Collection yields usage 0xff120001 and
\* the offset just behind the matching End Collection.
C15_BeginFirstExample ==
    (Scanned /\ sc_start = 0 /\ BeginFirst) =>
        /\ sc_ret.usage = USAGE_TB
        /\ sc_ret.pos = AfterMatchingEnd

\* C15 amended: a scan from offset 0 of Usage Page 0xff12, Usage 1, Collection,
\* any balanced nested collections, End Collection yields usage 0xff120001 and
\* the offset just behind the End Collection that matches the Collection item.
C15_UsageFirstExample ==
    (Scanned /\ sc_start = 0 /\ UsageFirst) =>
        /\ sc_ret.usage = USAGE_TB
        /\ sc_ret.pos = AfterMatchingEnd

\* the example with a nested collection that declares a usage of its own, and an
\* item behind the End Collection
C15_Witness ==
    /\ Scanned
    /\ sc_start = 0
    /\ sc_items = <<ItemPageVendor, ItemUsage1, ItemBegin, ItemBegin, ItemUsage32,
                    ItemEnd, ItemEnd, ItemPageSensor>>
    /\ sc_ret.usage = USAGE_TB
    /\ sc_ret.pos = Len(sc_rdesc) - 2

\* C16: usage capture.  The usage returned is made of the value of the last
\* Usage Page item met outside every collection, 0 when there is none, for its
\* upper half and of the low 16 bits of the last Usage item met outside every
\* collection, 0 when there is none, for its lower half: a Usage Page item leaves
\* the lower half alone, a Usage item the upper half, and the items inside a
\* collection change neither.
C16_UsageCapture ==
    Scanned =>
        sc_ret.usage = << LastValue(CallItems, {"page"}),
                          LastValue(CallItems, {"usage", "usage32"}) >>

\* a Usage item behind the Usage Page item has replaced the lower half only, and
\* the Usage Page and Usage items inside the collection have replaced nothing
C16_Witness ==
    /\ Scanned
    /\ sc_start = 0
    /\ sc_items = <<ItemPageVendor, ItemUsage1, ItemBegin, ItemPageSensor, ItemUsage32,
                    ItemEnd>>
    /\ sc_ret.usage = <<65298, 1>>

\* C17: end offset.  The scan returns the offset just behind the first End
\* Collection item at which the depth is 0 or less, and the end of the stream
\* when there is no such item before the stream ends or is cut short.
C17_EndOffset ==
    Scanned =>
        sc_ret.pos = (IF EndIdx(CallItems) # 0
                      THEN sc_start + Len(Encode(SubSeq(CallItems, 1, EndIdx(CallItems))))
                      ELSE Len(sc_rdesc))

\* a scan that began at an End Collection with no collection open and returned
\* the offset just behind it, before the end of the stream
C17_Witness ==
    /\ Scanned
    /\ Len(sc_items) = 3
    /\ sc_items[2] = ItemEnd
    /\ sc_start = ItemOffset(2)
    /\ sc_ret.pos = sc_start + 1
    /\ sc_ret.pos < Len(sc_rdesc)

\* C18: fixup idempotence.  Whatever the buffer, a second application of the
\* fixup leaves the result of the first as it is, and so does every later one.
C18_FixupIdempotent ==
    fx_calls >= 2 => fx_rdesc = fx_prev

\* the fixup has run twice on a buffer whose two fields it patched the first time
C18_Witness ==
    /\ fx_calls = 2
    /\ fx_rdesc # fx_orig
    /\ ByteAt(fx_orig, 433) = 64 /\ ByteAt(fx_rdesc, 433) = 32
    /\ ByteAt(fx_orig, 628) = 64 /\ ByteAt(fx_rdesc, 628) = 32
    /\ fx_rdesc = fx_prev

\* the buffer d has the length 634, Usage Page 0xff12 at 212..214 and, for the
\* field whose Report Size value is at offset size, Usage 0x51, Report Size 64
\* and Report Count 1
FieldSignature(d, size) ==
    /\ Len(d) = 634
    /\ SubSeq(d, 213, 215) = <<6, 18, 255>>
    /\ SubSeq(d, size - 16, size - 15) = <<9, 81>>
    /\ SubSeq(d, size, size + 3) = <<117, 64, 149, 1>>

\* C19: fixup rewrite and pass-through.  After one application to any buffer the
\* length is the same and so is every byte but those at 433, 435, 628 and 630;
\* for each of the two fields, when the buffer had the signature of that field its
\* size byte is 32 and its count byte 2, whatever the other field is like, and
\* when it had not, the two bytes are as before.
C19_FixupRewrite ==
    fx_calls = 1 =>
        /\ Len(fx_rdesc) = Len(fx_orig)
        /\ \A o \in 0 .. Len(fx_orig) - 1 :
              o \notin {433, 435, 628, 630} => ByteAt(fx_rdesc, o) = ByteAt(fx_orig, o)
        /\ \A size \in {433, 628} :
              IF FieldSignature(fx_orig, size)
              THEN /\ ByteAt(fx_rdesc, size) = 32
                   /\ ByteAt(fx_rdesc, size + 2) = 2
                   /\ ByteAt(fx_rdesc, size) * ByteAt(fx_rdesc, size + 2) =
                         ByteAt(fx_orig, size) * ByteAt(fx_orig, size + 2)
              ELSE size < Len(fx_orig) =>
                      /\ ByteAt(fx_rdesc, size) = ByteAt(fx_orig, size)
                      /\ ByteAt(fx_rdesc, size + 2) = ByteAt(fx_orig, size + 2)

\* one application has patched the second field of a buffer whose first field
\* has a Report Count that the signature does not match, and left the first
C19_Witness ==
    /\ fx_calls = 1
    /\ Len(fx_orig) = 634
    /\ ByteAt(fx_orig, 433) = 64 /\ ByteAt(fx_orig, 435) = 2
    /\ ByteAt(fx_rdesc, 433) = 64 /\ ByteAt(fx_rdesc, 435) = 2
    /\ ByteAt(fx_orig, 628) = 64 /\ ByteAt(fx_orig, 630) = 1
    /\ ByteAt(fx_rdesc, 628) = 32 /\ ByteAt(fx_rdesc, 630) = 2

\* the handle h is recorded in the table, and the slot it is recorded in
Recorded(h) == \E s \in Slots : sub_hdevs[s] = h
SlotOf(h) == CHOOSE s \in Slots : sub_hdevs[s] = h

\* C20: open / close frame.  A close made by a handle recorded in the table
\* clears the flag of the handle's slot and an open made by it sets that flag;
\* the flags of the other slots and the table are as before, and
\* appleib_set_open() returns 0.
C20_OpenCloseFrame ==
    [][\A h \in Handles :
          Recorded(h) =>
             /\ appleib_ll_close(h) =>
                   /\ sub_open' = [sub_open EXCEPT ![SlotOf(h)] = FALSE]
                   /\ sub_hdevs' = sub_hdevs
                   /\ appleib_set_open(sub_hdevs, sub_open, h, FALSE).ret = 0
             /\ (appleib_ll_open(h) \/ ConsumerProbe(h, TRUE)) =>
                   /\ sub_open' = [sub_open EXCEPT ![SlotOf(h)] = TRUE]
                   /\ sub_hdevs' = sub_hdevs
                   /\ appleib_set_open(sub_hdevs, sub_open, h, TRUE).ret = 0
                   /\ eps'[h].copen]_vars

\* the device of slot 1, opened while it was being registered, has been closed
\* by its consumer after the attach, and the device of slot 0 is still open
C20_Witness ==
    /\ pc = "bound"
    /\ drvdata = "info"
    /\ early.h = sub_hdevs[1] /\ early.open /\ early.slot = 1
    /\ IsLive(sub_hdevs[1])
    /\ eps[sub_hdevs[1]].driver /\ ~eps[sub_hdevs[1]].copen
    /\ ~sub_open[1]
    /\ IsLive(sub_hdevs[0]) /\ eps[sub_hdevs[0]].copen /\ sub_open[0]

(***************************************************************************)
(* C21: a power, raw-request or output-report call on a virtual device     *)
(* makes exactly one call on the real device, the same operation with the  *)
(* caller's arguments, and hands back what the real device answered,       *)
(* errors included, whichever virtual device called and whatever the open  *)
(* flags are.                                                              *)
(***************************************************************************)
C21_OutboundForward ==
    out.op # "none" =>
        /\ out.calls = <<HwCall(REAL_HDEV, out.op, out.args)>>
        /\ out.ret = out.rc

\* the device in slot 1, closed while slot 0 is open, had a raw request fail
C21_Witness ==
    /\ out.op = "raw_request"
    /\ out.rc < 0
    /\ out.h = sub_hdevs[1]
    /\ sub_open[0]
    /\ ~sub_open[1]

C23_ForwardSkipsAbsent ==
    (pc = "bound" /\ drvdata = "info" /\ pm.op # "none") =>
        /\ ~pm.oops
        /\ \A s \in Slots : InSeq(s, pm.calls) => s \in pm.had
        /\ (\A s \in Slots : InSeq(s, pm.calls) => pm.rets[s] = 0) => pm.ret = 0

\* the remove callback has run its teardown loop on the table
Detached ==
    /\ pc \in {"removed", "oops"}
    /\ add_ret = AddOk
    /\ InTrace("hw_close")

\* the destroy calls made since the real device was closed
DestroysAtDetach ==
    {d \in TraceIdx("destroy") : \A c \in TraceIdx("hw_close") : c < d}

(***************************************************************************)
(* C24: teardown touches only created devices.  A detach after an attach   *)
(* that filled m slots, m from 0 to the table size, destroys the m devices *)
(* in the table, each once, and calls destroy on no empty slot, in both    *)
(* generations.                                                            *)
(***************************************************************************)
C24_TeardownOnlyCreated ==
    Detached =>
        /\ pc = "removed"
        /\ \A s \in Slots :
              sub_hdevs[s] # 0 =>
                  /\ eps[sub_hdevs[s]].st = "destroyed"
                  /\ eps[sub_hdevs[s]].destroys = 1
                  /\ \E d \in DestroysAtDetach : trace[d][2] = sub_hdevs[s]
        /\ Cardinality(DestroysAtDetach) = Cardinality({s \in Slots : sub_hdevs[s] # 0})

\* the setup loop has finished without an error and hid_hw_open() on the real
\* device has failed
OpenFailed ==
    /\ pc \in {"failed", "oops"}
    /\ add_ret = AddOk
    /\ InTrace("hw_start")
    /\ ~InTrace("hw_open")
    /\ ~InTrace("hw_close")

(***************************************************************************)
(* C25: cleanup when opening the real device fails.  The probe returns the *)
(* error of hid_hw_open(), every virtual device made in this attach has    *)
(* been destroyed, none is left registered, and the real device has been   *)
(* stopped.                                                                *)
(***************************************************************************)
C25_OpenFailureCleanup ==
    OpenFailed =>
        /\ pc = "failed"
        /\ ret \in HwErrors
        /\ \A h \in Handles : eps[h].st = "destroyed" /\ eps[h].destroys = 1
        /\ ~hw.started
        /\ trace[Len(trace)][1] = "hw_stop"

\* the setup loop has left its last pass: start >= end
SegmentationDone == sc_ret # NoRet /\ sc_ret.pos >= Len(sc_rdesc)

(***************************************************************************)
(* C26: segmentation terminates.  On every byte stream, empty, truncated   *)
(* and unbalanced ones included, each scan of the setup loop returns an    *)
(* offset no further than the end of the stream and beyond its start, but  *)
(* for the one scan of an empty stream; the start offset so grows with     *)
(* every pass until it reaches the end, where the loop exits.              *)
(***************************************************************************)
C26_SegmentationTerminates ==
    sc_ret # NoRet =>
        /\ sc_ret.pos <= Len(sc_rdesc)
        /\ sc_ret.pos > sc_start \/ (sc_start = 0 /\ sc_rdesc = <<>>)
        /\ sc_start < Len(sc_rdesc) \/ (sc_start = 0 /\ sc_rdesc = <<>>)

\* the loop has exited after a second pass, which ran into a cut-off item
\* behind an End Collection that had no Collection before it
C26_Witness ==
    /\ sc_items = <<ItemEnd, ItemBegin, ItemCut>>
    /\ sc_start = 1
    /\ SegmentationDone

\* the scan of the bytes from the start offset on, taken as a stream of their own
ScanAlone ==
    appleib_find_collection(Encode(CallItems), 0, Len(Encode(CallItems)))

(***************************************************************************)
(* C27: the scanner carries no usage from one call to the next.  Every     *)
(* pass of the setup loop returns the usage that a scan of its own segment *)
(* alone returns: a half for which the segment has no item outside every   *)
(* collection is 0, whatever Usage Page or Usage the segments before it    *)
(* declared.                                                               *)
(***************************************************************************)
C27_NoUsageCarry ==
    Scanned =>
        /\ sc_ret.usage = ScanAlone.usage
        /\ TopLevel(CallItems, {"page"}) = {} => sc_ret.usage[1] = 0
        /\ TopLevel(CallItems, {"usage", "usage32"}) = {} => sc_ret.usage[2] = 0

\* the second pass, over a segment that declares only a Usage, behind a segment
\* that declared a Usage Page
C27_Witness ==
    /\ Scanned
    /\ sc_items = <<ItemPageVendor, ItemEnd, ItemUsage1>>
    /\ sc_start = ItemOffset(3)
    /\ sc_ret.usage = <<0, 1>>

(***************************************************************************)
(* C28: the touch-bar mode is updated on success only.  A mode above       *)
(* APPLETB_KBD_MODE_OFF is refused with -EINVAL before any call on the     *)
(* hardware; current_mode becomes the mode asked for when                  *)
(* appletb_kbd_set_mode() returns 0 and keeps its value on every failure,  *)
(* and so it always lies in 0 .. 3.                                        *)
(***************************************************************************)
C28_ModeOnSuccessOnly ==
    /\ kbd.current_mode \in 0 .. APPLETB_KBD_MODE_OFF
    /\ kcall.called =>
          /\ kcall.mode > APPLETB_KBD_MODE_OFF => kcall.ret = -22 /\ kcall.log = <<>>
          /\ kcall.ret = 0 => kcall.after.current_mode = kcall.mode
          /\ kcall.ret # 0 => kcall.after.current_mode = kcall.before.current_mode
          /\ kcall.after.current_mode \in 0 .. APPLETB_KBD_MODE_OFF
          /\ kcall.fn = "store" => kcall.hret = (IF kcall.ret < 0 THEN kcall.ret ELSE 2)

\* a write of mode 1 to the attribute of a T1 device in mode 2 failed on the
\* transfer and left the mode at 2
C28_Witness ==
    /\ kcall.fn = "store"
    /\ kcall.mode = 1
    /\ kcall.ret = -5
    /\ kcall.before.current_mode = 2
    /\ kbd.current_mode = 2
    /\ kbd.t1

\* the hardware calls of the last callback that were control messages
UsbSent == {n \in 1 .. Len(kcall.log) : kcall.log[n][1] = "usb"}

\* no control message of the last callback failed and the device came up
NoTransportFailure ==
    /\ \A n \in UsbSent : kcall.log[n][2] >= 0
    /\ \A n \in 1 .. Len(kcall.log) : kcall.log[n][1] = "power" => kcall.log[n][3] = 0

C30_BoundedRetry ==
    kcall.called =>
        /\ Cardinality(UsbSent) <= 5
        /\ \A n \in UsbSent :
              \/ kcall.log[n - 1] = <<"power", "PM_HINT_FULLON", 0>>
              \/ kcall.log[n - 1] = <<"usb", -32>>
        /\ \A n \in UsbSent :
              kcall.log[n][2] # -32 => (n + 1) \notin UsbSent
        /\ (\E n \in 1 .. Len(kcall.log) : kcall.log[n] = <<"power", "PM_HINT_FULLON", 0>>)
              => kcall.log[Len(kcall.log)] = <<"power", "PM_HINT_NORMAL", 0>>
        /\ UsbSent # {} =>
              kcall.ret = (IF kcall.log[Len(kcall.log) - 1][2] < 0
                           THEN kcall.log[Len(kcall.log) - 1][2] ELSE 0)

\* five stalls in a row: the call gave up with -EPIPE and lowered the power
C30_Witness ==
    /\ kcall.called
    /\ Cardinality(UsbSent) = 5
    /\ kcall.ret = -32
    /\ kcall.log[Len(kcall.log)] = <<"power", "PM_HINT_NORMAL", 0>>
    /\ kcall.after.current_mode = kcall.before.current_mode
====
